---- MODULE Spec2Model ----
(***************************************************************************)
(* Verification model of 3DPenCraft: the mesh graph and its edge-collapse  *)
(* decimator (GeometryModifier.js), the path search strategies             *)
(* (SearchProcess.js) and the idle-callback process queue (main.js).       *)
(*                                                                         *)
(* Coordinates are integers n standing for the float n * 2^-14, which is   *)
(* exact in Float32 and in Float64.  The meshes of the decimator are       *)
(* planar (z = 0) and drawn from a point set whose pairwise distances are  *)
(* integers, so that every collapse cost the code computes in floating     *)
(* point is an exact rational and is carried here as an integer multiple   *)
(* of 1 / CostScale.                                                       *)
(***************************************************************************)
EXTENDS Integers, Sequences, FiniteSets, TLC

VARIABLES
    pc,                 \* position of the caller of the mesh graph
    mesh,               \* the VerticesAndFaces instance
    count2,             \* twice the local variable count of collapse()
    iter,               \* the loop variable i of collapse()
    requested,          \* the argument collapse() was called with
    startCount,         \* arrVertices.length when collapse() was called
    popped,             \* what the last iteration of collapse() took from the index
    input,              \* the corner positions populate() was called with
    alg,                \* SearchProcess.searchAlgorithm of the running search
    spc,                \* position inside the running search function
    sp,                 \* SearchProcess.previousPoint / previousVector: set or null
    loc,                \* the local variables of the running search function
    paths,              \* the paths found so far, each a list of faces
    edges,              \* greedySearch: the EdgeCollection edges
    selectedEdges,      \* greedySearch: the EdgeCollection selectedEdges
    terminalEdges,      \* greedySearch: the EdgeCollection terminalEdges
    connectedEdges,     \* greedySearch: the EdgeCollection connectedEdges
    geometry,           \* the BufferGeometry indexAndMergeVertices is called with
    welded,             \* what indexAndMergeVertices returned for it
    nextProcessQueueID, \* main.js: the handle of the requested idle callback, 0 for null
    nextProcessToRun,   \* main.js: the processName of the queued process or Null
    nextProcessToRunData, \* main.js: the data the queued process is started with
    state,              \* main.js: the processName of the process started last
    result,             \* Process.result of each process: what it holds
    ended,              \* how the last startProcess of each process went
    reading,            \* LoadingProcess: the FileReaders in flight
    readingGLTF,        \* how many of them read a .gltf or .glb file
    parsing,            \* the calls of GLTFLoader.parse whose callback has
                        \* not been called yet
    starts,             \* the number of startProcess calls so far
    root,               \* Process.root of each process: "empty" when it has
                        \* no children, else "filled"
    defaultRun,         \* whether the default source has been queued with no
                        \* request of a GUI handler and no failure since, and
                        \* the processes started since then, in order
    lastRequest,        \* the last queueProcess call of a GUI handler, until a
                        \* callback runs: its arguments, and whether it found
                        \* a request queued
    curveParams,        \* CurveIntrapolationProcess: the params it was started with
    curveResult,        \* CurveIntrapolationProcess: the curves and their samples
    isDirty,            \* SearchProcess.isDirty
    searches,           \* the startProcess calls of the search process
    terminatePaths,     \* SearchProcess.terminatePaths
    searchResult,       \* SearchProcess.result: paths and pointCount
    nearest,            \* the last call of getNearestNeighbor with a travel
                        \* direction: its arguments and what it returned
    sorting             \* the sorting of the paths in the curve builder: the
                        \* paths before and after

meshVars == <<pc, mesh, count2, iter, requested, startCount, popped, input>>

searchVars == <<alg, spc, sp, loc, paths, edges, selectedEdges, terminalEdges,
                connectedEdges>>

weldVars == <<geometry, welded>>

queueVars == <<nextProcessQueueID, nextProcessToRun, nextProcessToRunData, state,
               result, ended, reading, readingGLTF, parsing, starts, root,
               defaultRun, lastRequest>>

\* the variables of the other pipeline stages
\* single calls of functions of the search process and of the curve builder
callVars == <<nearest, sorting>>

stageVars == <<curveParams, curveResult, isDirty, searches, terminatePaths,
               searchResult, callVars>>

vars == <<meshVars, searchVars, weldVars, queueVars, stageVars>>

----------------------------------------------------------------------------
\* JavaScript array primitives on 0-based positions

At(s, k) == s[k + 1]

RECURSIVE indexOfFrom(_, _, _)
indexOfFrom(s, x, k) ==
    IF k > Len(s) THEN -1
    ELSE IF s[k] = x THEN k - 1 ELSE indexOfFrom(s, x, k + 1)

indexOf(s, x) == indexOfFrom(s, x, 1)

\* Array.prototype.splice( start, 1 ): a negative start counts from the end
splice1(s, start) ==
    LET n  == Len(s)
        st == IF start < 0
              THEN (IF n + start < 0 THEN 0 ELSE n + start)
              ELSE (IF start > n THEN n ELSE start)
    IN  IF st >= n THEN s ELSE SubSeq(s, 1, st) \o SubSeq(s, st + 2, n)

\* Array.prototype.splice( start, 0, x ) for 0 <= start
splice0(s, start, x) ==
    LET n  == Len(s)
        st == IF start > n THEN n ELSE start
    IN  SubSeq(s, 1, st) \o <<x>> \o SubSeq(s, st + 1, n)

\* statement sequencing: the value x is computed before e is evaluated
after(x, e) == IF x = x THEN e ELSE e

\* the member of a one-element set; only( { e : x \in { v } } ) is e with x
\* standing for the value of v, computed once
only(S) == CHOOSE x \in S : TRUE

pop(s) == SubSeq(s, 1, Len(s) - 1)

Last(s) == s[Len(s)]

Abs(n) == IF n < 0 THEN -n ELSE n

Sign(n) == IF n > 0 THEN 1 ELSE IF n < 0 THEN -1 ELSE 0

\* Math.sqrt on the squares the point set produces
Sqrt(n) == CHOOSE r \in 0..64 : r * r = n

----------------------------------------------------------------------------
\* Geometry

\* collapse costs are carried as cost * CostScale, CostScale = 2^15 * CostMul
CostMul == 8 * 3 * 125 * 7

\* the sentinel -0.01 of computeEdgeCostAtVertex, times CostScale
IsolatedCost == -6881280

sub(p, q) == <<p[1] - q[1], p[2] - q[2], p[3] - q[3]>>

dot(p, q) == p[1] * q[1] + p[2] * q[2] + p[3] * q[3]

cross(p, q) == <<p[2] * q[3] - p[3] * q[2],
                 p[3] * q[1] - p[1] * q[3],
                 p[1] * q[2] - p[2] * q[1]>>

distanceToSquared(p, q) == dot(sub(p, q), sub(p, q))

distanceTo(p, q) == Sqrt(distanceToSquared(p, q))

\* Vector3.normalize: the vector p / sqrt( lengthSq ), carried as the two;
\* a zero vector stays zero
normalize(p) ==
    only({[vector |-> v, lengthSq |-> IF dot(v, v) = 0 THEN 1 ELSE dot(v, v)] :
              v \in {p}})

\* at most one coordinate of p is not 0: p / sqrt( lengthSq ) has the
\* coordinates 0, 1 and -1, and floating point computes them exactly
axisParallel(p) == Cardinality({k \in 1..3 : p[k] # 0}) <= 1

\* Vector3.dot of two normalized vectors that are axis-parallel. Of other
\* vectors the product is not an integer and is not carried
unitDot(m, n) ==
    only({CASE axisParallel(a) /\ axisParallel(b) ->
              dot(<<Sign(a[1]), Sign(a[2]), Sign(a[3])>>,
                  <<Sign(b[1]), Sign(b[2]), Sign(b[3])>>) :
              a \in {m.vector}, b \in {n.vector}})

----------------------------------------------------------------------------
\* Vertex and Triangle

Vertex(v, index) ==
    [position |-> v, index |-> index, faces |-> <<>>, neighbors |-> <<>>,
     collapseCost |-> 0, collapseNeighbor |-> 0]

hasVertex(fr, v) == v = fr.v1 \/ v = fr.v2 \/ v = fr.v3

\* Triangle.computeNormal: ( vC - vB ) x ( vA - vB ), normalized
computeNormal(g, f) ==
    LET fr == g.face[f]
        vA == g.vertex[fr.v1].position
        vB == g.vertex[fr.v2].position
        vC == g.vertex[fr.v3].position
    IN  normalize(cross(sub(vC, vB), sub(vA, vB)))

\* Triangle.computeCenter, times 3
computeCenter(g, f) ==
    LET fr == g.face[f]
        vA == g.vertex[fr.v1].position
        vB == g.vertex[fr.v2].position
        vC == g.vertex[fr.v3].position
    IN  <<vA[1] + vB[1] + vC[1], vA[2] + vB[2] + vC[2], vA[3] + vB[3] + vC[3]>>

Sort3(a, b, c) ==
    LET lo == IF a <= b /\ a <= c THEN a ELSE IF b <= c THEN b ELSE c
        hi == IF a >= b /\ a >= c THEN a ELSE IF b >= c THEN b ELSE c
    IN  <<lo, a + b + c - lo - hi, hi>>

\* Triangle.computeHash: the sorted triple of the current vertex indices
computeHash(g, f) ==
    LET fr == g.face[f]
    IN  Sort3(g.vertex[fr.v1].index, g.vertex[fr.v2].index, g.vertex[fr.v3].index)

addUniqueNeighbor(g, a, b) ==
    IF indexOf(g.vertex[a].neighbors, b) = -1
    THEN [g EXCEPT !.vertex[a].neighbors = Append(@, b)]
    ELSE g

RECURSIVE anyFaceHas(_, _, _, _)
anyFaceHas(g, fs, n, k) ==
    IF k > Len(fs) THEN FALSE
    ELSE IF hasVertex(g.face[fs[k]], n) THEN TRUE ELSE anyFaceHas(g, fs, n, k + 1)

\* the neighbor kept whatever the faces are
keepNeighbor(g, s, n) == g

removeIfNonNeighbor(g, s, n) ==
    LET offset == indexOf(g.vertex[s].neighbors, n)
    IN  IF offset = -1 THEN g
        ELSE IF anyFaceHas(g, g.vertex[s].faces, n, 1) THEN g
        ELSE [g EXCEPT !.vertex[s].neighbors = splice1(@, offset)]

\* new Triangle( v1, v2, v3 ) registered as face f
Triangle(g, f, v1, v2, v3) ==
    LET g0 == [g EXCEPT !.face = [x \in (DOMAIN g.face) \cup {f} |->
                   IF x = f THEN [v1 |-> v1, v2 |-> v2, v3 |-> v3,
                                  hash |-> <<>>, degree |-> 0]
                   ELSE g.face[x]]]
        g1 == [g0 EXCEPT !.vertex[v1].faces = Append(@, f)]
        g2 == addUniqueNeighbor(addUniqueNeighbor(g1, v1, v2), v1, v3)
        g3 == [g2 EXCEPT !.vertex[v2].faces = Append(@, f)]
        g4 == addUniqueNeighbor(addUniqueNeighbor(g3, v2, v1), v2, v3)
        g5 == [g4 EXCEPT !.vertex[v3].faces = Append(@, f)]
    IN  addUniqueNeighbor(addUniqueNeighbor(g5, v3, v1), v3, v2)

----------------------------------------------------------------------------
\* Collapse costs

RECURSIVE sideFaces(_, _, _, _)
sideFaces(g, fs, v, k) ==
    IF k > Len(fs) THEN <<>>
    ELSE IF hasVertex(g.face[fs[k]], v)
         THEN <<fs[k]>> \o sideFaces(g, fs, v, k + 1)
         ELSE sideFaces(g, fs, v, k + 1)

Max(a, b) == IF a >= b THEN a ELSE b

Min(a, b) == IF a <= b THEN a ELSE b

\* twice the curvature of computeEdgeCollapseCost when sideFaces.length = 2
RECURSIVE curvature2(_, _, _, _, _)
curvature2(g, fs, sides, k, acc) ==
    IF k > Len(fs) THEN acc
    ELSE LET n       == computeNormal(g, fs[k])
             dotProd == Max(unitDot(n, computeNormal(g, sides[1])),
                            unitDot(n, computeNormal(g, sides[2])))
             minCurvature2 == Min(2, 1 - dotProd)
         IN  curvature2(g, fs, sides, k + 1, Max(acc, minCurvature2))

\* computeEdgeCollapseCost( u, v ), times 2^15
computeEdgeCollapseCost(g, u, v) ==
    LET edgelength == distanceTo(g.vertex[v].position, g.vertex[u].position)
        fs         == g.vertex[u].faces
        sides      == sideFaces(g, fs, v, 1)
        curv2      == IF Len(sides) = 2 THEN curvature2(g, fs, sides, 1, 0) ELSE 2
    IN  edgelength * curv2

\* the loop of computeEdgeCostAtVertex: [neighbor, minCost, totalCost]
RECURSIVE edgeCostLoop(_, _, _, _)
edgeCostLoop(g, v, k, acc) ==
    after(acc,
        LET ns == g.vertex[v].neighbors
        IN  IF k > Len(ns) THEN acc
            ELSE LET neighbor == ns[k]
                     body(collapseCost) ==
                         IF acc.collapseNeighbor = 0
                         THEN [collapseNeighbor |-> neighbor, minCost |-> collapseCost,
                               totalCost |-> collapseCost]
                         ELSE IF collapseCost < acc.minCost
                         THEN [collapseNeighbor |-> neighbor, minCost |-> collapseCost,
                               totalCost |-> acc.totalCost + collapseCost]
                         ELSE [acc EXCEPT !.totalCost = @ + collapseCost]
                 IN  edgeCostLoop(g, v, k + 1,
                         body(computeEdgeCollapseCost(g, v, neighbor))))

\* computeEdgeCostAtVertex( v ): sets collapseNeighbor and collapseCost
computeEdgeCostAtVertex(g, v) ==
    LET costCount == Len(g.vertex[v].neighbors)
    IN  IF costCount = 0
        THEN [g EXCEPT !.vertex[v].collapseNeighbor = 0,
                       !.vertex[v].collapseCost = IsolatedCost]
        ELSE LET set(r) ==
                     [g EXCEPT !.vertex[v].collapseNeighbor = r.collapseNeighbor,
                               !.vertex[v].collapseCost =
                                   (r.totalCost * CostMul) \div costCount]
             IN  set(edgeCostLoop(g, v, 1,
                         [collapseNeighbor |-> 0, minCost |-> 0, totalCost |-> 0]))

----------------------------------------------------------------------------
\* VerticesAndFaces

\* new VerticesAndFaces(): arrVertices is the object {}, which has no
\* length, until populateFromGeometry assigns an array
EmptyMesh ==
    [arrFaces |-> <<>>, arrVertices |-> <<>>, arrVerticesIsArray |-> FALSE,
     arrVerticesByCost |-> <<>>, vertex |-> <<>>, face |-> <<>>]

\* arrVertices.length: of the object {} it is undefined
verticesCount(g) ==
    IF g.arrVerticesIsArray THEN Len(g.arrVertices) ELSE "undefined"

facesCount(g) == Len(g.arrFaces)

\* the loop of removeVertex over vertex.neighbors (the live array)
RECURSIVE purgeNeighbors(_, _)
purgeNeighbors(g, vertex) ==
    after(g,
        IF g.vertex[vertex].neighbors = <<>> THEN g
        ELSE LET n  == Last(g.vertex[vertex].neighbors)
                 g1 == [g EXCEPT !.vertex[vertex].neighbors = pop(@)]
                 k  == indexOf(g1.vertex[n].neighbors, vertex)
             IN  purgeNeighbors(IF k > -1
                                THEN [g1 EXCEPT !.vertex[n].neighbors = splice1(@, k)]
                                ELSE g1, vertex))

\* removeVertex without its loop over the indices of the vertices behind
spliceVertex(g, vertex) ==
    LET index == g.vertex[vertex].index
        cost_index == indexOf(g.arrVerticesByCost, index)
        shift(byCost) ==
            [k \in 1..Len(byCost) |->
                IF byCost[k] > index THEN byCost[k] - 1 ELSE byCost[k]]
        byCost2 == shift(IF cost_index # -1 THEN splice1(g.arrVerticesByCost, cost_index)
                         ELSE g.arrVerticesByCost)
    IN  [purgeNeighbors(g, vertex) EXCEPT !.arrVertices = splice1(g.arrVertices, index),
                                          !.arrVerticesByCost = byCost2]

removeVertex(g, vertex) ==
    LET index == g.vertex[vertex].index
        \* arrVertices[ i ].index = i for i >= index
        reindex(g1, arrV) ==
            [g1 EXCEPT !.arrVertices = arrV,
                       !.vertex = [x \in DOMAIN g1.vertex |->
                           LET at == indexOf(arrV, x)
                           IN  IF at >= index THEN [g1.vertex[x] EXCEPT !.index = at]
                               ELSE g1.vertex[x]]]
        cost_index == indexOf(g.arrVerticesByCost, index)
        shift(byCost) ==
            [k \in 1..Len(byCost) |->
                IF byCost[k] > index THEN byCost[k] - 1 ELSE byCost[k]]
        byCost2 == shift(IF cost_index # -1 THEN splice1(g.arrVerticesByCost, cost_index)
                         ELSE g.arrVerticesByCost)
    IN  [reindex(purgeNeighbors(g, vertex), splice1(g.arrVertices, index))
            EXCEPT !.arrVerticesByCost = byCost2]

removeNonNeighbors(g, s, t) == removeIfNonNeighbor(removeIfNonNeighbor(g, s, t), t, s)

RECURSIVE detachFace(_, _, _, _)
detachFace(g, f, vs, k) ==
    after(g,
        IF k > Len(vs) THEN g
        ELSE LET f_ind == indexOf(g.vertex[vs[k]].faces, f)
             IN  detachFace(IF f_ind > -1
                            THEN [g EXCEPT !.vertex[vs[k]].faces = splice1(@, f_ind)]
                            ELSE g, f, vs, k + 1))

removeFace(g, f) ==
    LET k  == indexOf(g.arrFaces, f)
        g1 == IF k > -1 THEN [g EXCEPT !.arrFaces = splice1(@, k)] ELSE g
        a  == g.face[f].v1
        b  == g.face[f].v2
        c  == g.face[f].v3
        g2 == detachFace(g1, f, <<a, b, c>>, 1)
    IN  removeNonNeighbors(removeNonNeighbors(removeNonNeighbors(g2, a, b), b, c), c, a)

\* ~ ~ ( x * 10000 ) for the float x = n * 2^-14: truncation toward zero
\* (the inputs stay far inside the Int32 range, where ~ ~ does not wrap)
Quantize(n) == IF n >= 0 THEN (n * 625) \div 1024 ELSE -(((-n) * 625) \div 1024)

getHash(p) == <<Quantize(p[1]), Quantize(p[2]), Quantize(p[3])>>

\* the loop of indexAndMergeVertices over the corners of a non-indexed
\* geometry; hashToIndex lists its keys in the order of their values 0, 1, ...
RECURSIVE mergeLoop(_, _, _)
mergeLoop(corners, i, acc) ==
    after(acc,
        IF i > Len(corners) THEN acc
        ELSE LET hash == getHash(corners[i])
                 push(at) ==
                     IF at # -1
                     THEN [acc EXCEPT !.newIndices = Append(@, at)]
                     ELSE [hashToIndex    |-> Append(acc.hashToIndex, hash),
                           positionsArray |-> Append(acc.positionsArray, corners[i]),
                           newIndices     |-> Append(acc.newIndices,
                                                     Len(acc.positionsArray))]
             IN  mergeLoop(corners, i + 1, push(indexOf(acc.hashToIndex, hash))))

\* an index that gives every corner a vertex of its own
unwelded(corners) ==
    [positions |-> corners, indices |-> [k \in 1..Len(corners) |-> k - 1]]

\* indexAndMergeVertices( geometry ) on the corner positions of the geometry
indexAndMergeVertices(corners) ==
    LET attributes(acc) == [positions |-> acc.positionsArray, indices |-> acc.newIndices]
    IN  attributes(mergeLoop(corners, 1,
                   [hashToIndex |-> <<>>, positionsArray |-> <<>>, newIndices |-> <<>>]))

RECURSIVE addFaces(_, _, _)
addFaces(g, indices, i) ==
    after(g,
        IF i + 2 > Len(indices) THEN g
        ELSE LET f  == (i + 2) \div 3
                 g1 == Triangle(g, f, indices[i] + 1, indices[i + 1] + 1, indices[i + 2] + 1)
             IN  addFaces([g1 EXCEPT !.arrFaces = Append(@, f)], indices, i + 3))

RECURSIVE computeAllCosts(_, _)
computeAllCosts(g, i) ==
    after(g,
        IF i > Len(g.arrVertices) THEN g
        ELSE computeAllCosts(computeEdgeCostAtVertex(g, g.arrVertices[i]), i + 1))

\* Array.prototype.sort of the positions 0..n-1 by collapseCost (stable)
RECURSIVE sortByCost(_, _, _)
sortByCost(g, i, acc) ==
    after(acc,
        IF i > Len(g.arrVertices) THEN acc
        ELSE LET cost == g.vertex[g.arrVertices[i]].collapseCost
                 \* number of entries already placed whose cost is <= cost
                 before == Cardinality({k \in 1..Len(acc) :
                               g.vertex[At(g.arrVertices, acc[k])].collapseCost <= cost})
             IN  sortByCost(g, i + 1, splice0(acc, before, i - 1)))

computeFaceHashes(g) ==
    [g EXCEPT !.face = [f \in DOMAIN g.face |->
        IF indexOf(g.arrFaces, f) # -1
        THEN [g.face[f] EXCEPT !.hash = computeHash(g, f)]
        ELSE g.face[f]]]

\* the first two loops of populateFromGeometry: the vertices and the faces
addVerticesAndFaces(corners) ==
    LET merged == indexAndMergeVertices(corners)
        g0 == [EmptyMesh EXCEPT
                 !.arrVertices = [i \in 1..Len(merged.positions) |-> i],
                 !.arrVerticesIsArray = TRUE,
                 !.vertex = [i \in 1..Len(merged.positions) |->
                                Vertex(merged.positions[i], i - 1)]]
    IN  addFaces(g0, merged.indices, 1)

populateFromGeometry(corners) ==
    LET g1 == addVerticesAndFaces(corners)
        g2 == computeAllCosts(g1, 1)
        g3 == [g2 EXCEPT !.arrVerticesByCost = sortByCost(g2, 1, <<>>)]
    IN  computeFaceHashes(g3)

----------------------------------------------------------------------------
\* VerticesAndFaces.collapse, one loop iteration at a time

\* a collapse that leaves the faces on edge uv in place
keepSideFaces(g, u, v, i) == g

\* the first loop of an iteration: delete the faces on edge uv
RECURSIVE deleteSideFaces(_, _, _, _)
deleteSideFaces(g, u, v, i) ==
    after(g,
        IF i < 0 THEN g
        ELSE LET u_faces == g.vertex[u].faces
             IN  IF i < Len(u_faces) /\ hasVertex(g.face[At(u_faces, i)], v)
                 THEN deleteSideFaces(removeFace(g, At(u_faces, i)), u, v, i - 1)
                 ELSE deleteSideFaces(g, u, v, i - 1))

\* the body of the second loop: move one face of u over to v
moveFace(g, u, v, i) ==
    LET face == At(g.vertex[u].faces, i)
        g1 == [g EXCEPT !.vertex[u].faces = splice1(@, i)]
        g2 == [g1 EXCEPT !.vertex[v].faces = Append(@, face)]
        fr == g.face[face]
        \* the vertices of face once the first of them equal to u is replaced by v
        a  == IF u = fr.v1 THEN v ELSE fr.v1
        b  == IF u = fr.v1 THEN fr.v2 ELSE IF u = fr.v2 THEN v ELSE fr.v2
        c  == IF u = fr.v1 \/ u = fr.v2 THEN fr.v3 ELSE IF u = fr.v3 THEN v ELSE fr.v3
        g3 == [g2 EXCEPT !.face[face].v1 = a, !.face[face].v2 = b, !.face[face].v3 = c]
        r1 == removeIfNonNeighbor(removeIfNonNeighbor(g3, u, a), a, u)
        r2 == removeIfNonNeighbor(removeIfNonNeighbor(r1, u, b), b, u)
        r3 == removeIfNonNeighbor(removeIfNonNeighbor(r2, u, c), c, u)
        a1 == addUniqueNeighbor(addUniqueNeighbor(r3, a, b), a, c)
        a2 == addUniqueNeighbor(addUniqueNeighbor(a1, b, a), b, c)
    IN  addUniqueNeighbor(addUniqueNeighbor(a2, c, a), c, b)

RECURSIVE moveFaces(_, _, _, _)
moveFaces(g, u, v, i) ==
    after(g,
        IF i < 0 THEN g ELSE moveFaces(moveFace(g, u, v, i), u, v, i - 1))

\* does arrVerticesByCost[ k ] name a vertex of arrVertices
definedAt(g, byCost, k) ==
    /\ 0 <= k /\ k < Len(byCost)
    /\ 0 <= At(byCost, k) /\ At(byCost, k) < Len(g.arrVertices)

\* the binary search of collapse() and addVertex(): [low, ok]; ok is FALSE
\* when arrVertices[ arrVerticesByCost[ mid ] ] is undefined (a TypeError)
RECURSIVE binarySearch(_, _, _, _, _)
binarySearch(g, byCost, cost, low, high) ==
    IF ~(low < high) THEN [low |-> low, ok |-> TRUE]
    ELSE LET mid == (low + high) \div 2
         IN  IF ~definedAt(g, byCost, mid) THEN [low |-> low, ok |-> FALSE]
             ELSE IF g.vertex[At(g.arrVertices, At(byCost, mid))].collapseCost < cost
                  THEN binarySearch(g, byCost, cost, mid + 1, high)
                  ELSE binarySearch(g, byCost, cost, low, mid)

\* the neighbors of u left with the cost and the place they had
noReinsert(g, tmpVertices, i) == [g |-> g, ok |-> TRUE]

\* the third loop of an iteration: recompute and re-insert the neighbors of u
RECURSIVE reinsert(_, _, _)
reinsert(g, tmpVertices, i) ==
    after(g,
        IF i > Len(tmpVertices) THEN [g |-> g, ok |-> TRUE]
        ELSE LET tmpVertex == tmpVertices[i]
                 index     == g.vertex[tmpVertex].index
                 byCost    == splice1(g.arrVerticesByCost,
                                      indexOf(g.arrVerticesByCost, index))
                 place(g1, found) ==
                     IF ~found.ok
                     THEN [g |-> [g1 EXCEPT !.arrVerticesByCost = byCost], ok |-> FALSE]
                     ELSE reinsert([g1 EXCEPT !.arrVerticesByCost =
                                        splice0(byCost, found.low, index)],
                                   tmpVertices, i + 1)
                 search(g1) ==
                     place(g1, binarySearch(g1, byCost, g1.vertex[tmpVertex].collapseCost,
                                            0, Len(byCost) - 1))
             IN  search(computeEdgeCostAtVertex(g, tmpVertex)))

\* an iteration of the for loop of collapse() up to and including its call
\* of removeVertex( u )
vertexRemoved(g) ==
    LET u == At(g.arrVertices, At(g.arrVerticesByCost, 0))
        v == g.vertex[u].collapseNeighbor
        move(g1) == moveFaces(g1, u, v, Len(g1.vertex[u].faces) - 1)
    IN  IF v = 0
        THEN removeVertex(g, u)
        ELSE removeVertex(
                 move(deleteSideFaces(g, u, v, Len(g.vertex[u].faces) - 1)), u)

\* one iteration of the for loop of collapse(): [g, ok, u, v]
collapseIteration(g) ==
    IF ~definedAt(g, g.arrVerticesByCost, 0)
    THEN [g |-> g, ok |-> FALSE, u |-> 0, v |-> 0]
    ELSE LET u == At(g.arrVertices, At(g.arrVerticesByCost, 0))
             v == g.vertex[u].collapseNeighbor
         IN  IF v = 0
             THEN [g |-> vertexRemoved(g), ok |-> TRUE, u |-> u, v |-> 0]
             ELSE LET tmpVertices == g.vertex[u].neighbors
                      outcome(r) == [g |-> r.g, ok |-> r.ok, u |-> u, v |-> v]
                  IN  outcome(reinsert(vertexRemoved(g), tmpVertices, 1))

----------------------------------------------------------------------------
\* SearchProcess: what the search strategies read from the faces

\* new Set( [ ... ] ) spread back into an array: first occurrences, in order
RECURSIVE uniqueInOrder(_, _, _)
uniqueInOrder(s, k, acc) ==
    IF k > Len(s) THEN acc
    ELSE only({uniqueInOrder(s, k + 1, set) :
                  set \in {IF indexOf(acc, s[k]) = -1 THEN Append(acc, s[k]) ELSE acc}})

\* Set.prototype.delete on the array the set is spread into
without(s, x) == SelectSeq(s, LAMBDA y : y # x)

\* a neighbors getter that returns every other face of the face list
everyOtherFace(g, f) == without(g.arrFaces, f)

\* Triangle.neighbors: the faces at the three vertices, this face excepted
neighbors(g, f) ==
    LET fr == g.face[f]
    IN  without(uniqueInOrder(g.vertex[fr.v1].faces \o g.vertex[fr.v2].faces
                                  \o g.vertex[fr.v3].faces, 1, <<>>), f)

incrementDegree(g, f) == [g EXCEPT !.face[f].degree = @ + 1]

\* resetPreviousPoint()
resetPreviousPoint == [previousPoint |-> FALSE, previousVector |-> FALSE]

\* getNextPoint( face ): which of previousPoint and previousVector are set
\* afterwards; the point itself is one point per face
getNextPoint(s) ==
    IF ~s.previousPoint THEN [s EXCEPT !.previousPoint = TRUE]
    ELSE [previousPoint |-> TRUE, previousVector |-> TRUE]

\* the first loop of getNearestNeighbor (previousVector is null): the first
\* unvisited neighbor whose normal has the largest positive dot product
RECURSIVE bestByNormal(_, _, _, _, _, _)
bestByNormal(g, face, ns, k, cost, bestNeighbor) ==
    IF k > Len(ns) THEN bestNeighbor
    ELSE LET neighbor     == ns[k]
             neighborCost == unitDot(computeNormal(g, face), computeNormal(g, neighbor))
         IN  IF g.face[neighbor].degree < 1 /\ neighborCost > cost
             THEN bestByNormal(g, face, ns, k + 1, neighborCost, neighbor)
             ELSE bestByNormal(g, face, ns, k + 1, cost, bestNeighbor)

\* the second loop of getNearestNeighbor compares rounded floating-point
\* cosines of directions between path points: every unvisited neighbor, and
\* null, is a possible outcome
byDirection(g, face) ==
    {0} \cup {n \in {neighbors(g, face)[k] : k \in 1..Len(neighbors(g, face))} :
                 g.face[n].degree < 1}

\* the second loop of getNearestNeighbor for a previousVector, from
\* neighbors[ k ] on: let cost = 1 is inside the loop, so every unvisited
\* neighbor with 1 - prevVector . vector < 1 becomes bestNeighbor. The dot
\* product of the normalized vectors is positive when that of the vectors
\* is; where that is 0 the rounding of the normalized vectors decides. The
\* result is the set of the values bestNeighbor can end with (0 is null)
RECURSIVE directionLoop(_, _, _, _, _, _)
directionLoop(g, face, prevVector, ns, k, best) ==
    IF k > Len(ns) THEN best
    ELSE LET neighbor == ns[k]
             ahead    == dot(prevVector,
                             sub(computeCenter(g, neighbor), computeCenter(g, face)))
         IN  directionLoop(g, face, prevVector, ns, k + 1,
                 IF g.face[neighbor].degree < 1 /\ ahead > 0 THEN {neighbor}
                 ELSE IF g.face[neighbor].degree < 1 /\ ahead = 0
                      THEN best \cup {neighbor}
                      ELSE best)

\* getNearestNeighbor( face ) with previousVector set to prevVector
nearestByDirection(g, face, prevVector) ==
    IF Len(neighbors(g, face)) = 0 THEN {0}
    ELSE directionLoop(g, face, prevVector, neighbors(g, face), 1, {0})

\* the values getNearestNeighbor( face ) can return (0 is null)
getNearestNeighbor(g, s, face) ==
    IF Len(neighbors(g, face)) = 0 THEN {0}
    ELSE IF ~s.previousVector
         THEN {bestByNormal(g, face, neighbors(g, face), 1, 0, 0)}
         ELSE byDirection(g, face)

\* bestNeighbor.degree ++ of getNearestNeighbor
chosenNeighbor(g, n) == IF n = 0 THEN g ELSE incrementDegree(g, n)

\* a getStartFace() that finds no face
noStartFace(g, k) == 0

\* getStartFace() of nearestNeighborSearch
RECURSIVE getStartFace(_, _)
getStartFace(g, k) ==
    IF k > Len(g.arrFaces) THEN 0
    ELSE IF g.face[g.arrFaces[k]].degree = 0 THEN g.arrFaces[k]
    ELSE getStartFace(g, k + 1)

----------------------------------------------------------------------------
\* findPathFromFace and WrappingPathSearch

\* the inner loop of getUnconnectedNeighbors over candidateNeighbors
RECURSIVE addUnconnected(_, _, _, _)
addUnconnected(g, candidateNeighbors, j, acc) ==
    IF j > Len(candidateNeighbors) THEN acc
    ELSE LET candidate == candidateNeighbors[j]
         IN  only({addUnconnected(g, candidateNeighbors, j + 1, unconnected) :
                 unconnected \in
                     {IF g.face[candidate].degree = 0 /\ indexOf(acc, candidate) = -1
                      THEN Append(acc, candidate) ELSE acc}})

\* getUnconnectedNeighbors( searchNeighbors ), from searchNeighbors[ i ] on
RECURSIVE getUnconnectedNeighbors(_, _, _, _)
getUnconnectedNeighbors(g, searchNeighbors, i, acc) ==
    IF i > Len(searchNeighbors) THEN acc
    ELSE only({getUnconnectedNeighbors(g, searchNeighbors, i + 1, unconnected) :
                 unconnected \in
                     {addUnconnected(g, neighbors(g, searchNeighbors[i]), 1, acc)}})

\* removeNearestNeighbor: [nearest, index, distanceSqrd], distanceSqrd -1
\* standing for Infinity; centers are carried times 3, distances times 9
RECURSIVE nearestLoop(_, _, _, _, _)
nearestLoop(g, ns, face, i, acc) ==
    IF i >= Len(ns) THEN acc
    ELSE LET neighbor == At(ns, i)
             neighborDistanceSqrd ==
                 distanceToSquared(computeCenter(g, face), computeCenter(g, neighbor))
         IN  IF indexOf(neighbors(g, face), neighbor) = -1
             THEN nearestLoop(g, ns, face, i + 1, acc)
             ELSE IF acc.distanceSqrd = -1 \/ neighborDistanceSqrd < acc.distanceSqrd
             THEN nearestLoop(g, ns, face, i + 1,
                      [nearest |-> neighbor, index |-> i,
                       distanceSqrd |-> neighborDistanceSqrd])
             ELSE nearestLoop(g, ns, face, i + 1, acc)

removeNearestNeighbor(g, ns, face) ==
    nearestLoop(g, ns, face, 0, [nearest |-> 0, index |-> -1, distanceSqrd |-> -1])

\* differenceArray( A, B )
RECURSIVE differenceArray(_, _, _)
differenceArray(A, B, i) ==
    IF i > Len(B) THEN A
    ELSE only({differenceArray(difference, B, i + 1) :
                  difference \in {IF indexOf(A, B[i]) = -1 THEN A
                                  ELSE splice1(A, indexOf(A, B[i]))}})

\* while ( currentNeighbors.length > 0 ) of findPathFromFace
RECURSIVE walkNeighbors(_, _, _, _, _)
walkNeighbors(g, currentNeighbors, activeNeighbors, currentFace, path) ==
    IF Len(currentNeighbors) = 0
    THEN [g |-> g, activeNeighbors |-> activeNeighbors,
          currentFace |-> currentFace, path |-> path]
    ELSE only({
        IF r.nearest # 0
        THEN only({walkNeighbors(g1, rest, activeNeighbors, r.nearest, path1) :
                      g1    \in {incrementDegree(g, r.nearest)},
                      rest  \in {splice1(currentNeighbors, r.index)},
                      path1 \in {Append(path, r.nearest)}})
        ELSE [g |-> g,
              activeNeighbors |-> differenceArray(activeNeighbors, currentNeighbors, 1),
              currentFace |-> currentFace, path |-> path] :
        r \in {removeNearestNeighbor(g, currentNeighbors, currentFace)}})

\* while ( activeNeighbors.length > 0 ) of findPathFromFace
RECURSIVE walkRings(_, _, _, _)
walkRings(g, activeNeighbors, currentFace, path) ==
    IF Len(activeNeighbors) = 0 THEN [g |-> g, path |-> path]
    ELSE only({
        only({walkRings(r.g, r.activeNeighbors, r.currentFace, r.path) :
                 r \in {walkNeighbors(g, currentNeighbors, currentNeighbors,
                                      currentFace, path)}}) :
        currentNeighbors \in {getUnconnectedNeighbors(g, activeNeighbors, 1, <<>>)}})

\* findPathFromFace( startFace ): [g, path]
findPathFromFace(g, startFace) ==
    only({walkRings(g1, <<startFace>>, startFace, <<startFace>>) :
             g1 \in {incrementDegree(g, startFace)}})

\* getNextFace() of WrappingPathSearch: [face, previousIndex], face 0 for undefined
RECURSIVE getNextFace(_, _, _)
getNextFace(g, previousIndex, i) ==
    IF i >= Len(g.arrFaces) THEN [face |-> 0, previousIndex |-> previousIndex]
    ELSE IF g.face[At(g.arrFaces, i)].degree = 0
         THEN [face |-> At(g.arrFaces, i), previousIndex |-> i]
         ELSE getNextFace(g, previousIndex, i + 1)

----------------------------------------------------------------------------
\* Edge and EdgeCollection of the greedy search

\* the decimal digits of a vertex index, as a template literal prints them
RECURSIVE digits(_)
digits(n) ==
    IF n < 10 THEN <<<<"0", "1", "2", "3", "4", "5", "6", "7", "8", "9">>[n + 1]>>
    ELSE digits(n \div 10) \o digits(n % 10)

\* Triangle.hash as the string `${ indexes[0] },${ indexes[1] },${ indexes[2] }`
hashString(h) ==
    IF h = <<>> THEN <<>>
    ELSE digits(h[1]) \o <<",">> \o digits(h[2]) \o <<",">> \o digits(h[3])

faceHash(g, f) == hashString(g.face[f].hash)

\* the collation rank of a character of a face hash: the comma sorts before
\* the digits
rank(c) == CHOOSE i \in 1..11 :
               <<",", "0", "1", "2", "3", "4", "5", "6", "7", "8", "9">>[i] = c

\* String.prototype.localeCompare on face hashes
RECURSIVE localeCompare(_, _)
localeCompare(a, b) ==
    IF Len(a) = 0 /\ Len(b) = 0 THEN 0
    ELSE IF Len(a) = 0 THEN -1
    ELSE IF Len(b) = 0 THEN 1
    ELSE IF rank(Head(a)) < rank(Head(b)) THEN -1
    ELSE IF rank(Head(a)) > rank(Head(b)) THEN 1
    ELSE localeCompare(Tail(a), Tail(b))

startsWith(s, t) == Len(t) <= Len(s) /\ SubSeq(s, 1, Len(t)) = t

endsWith(s, t) == Len(t) <= Len(s) /\ SubSeq(s, Len(s) - Len(t) + 1, Len(s)) = t

\* EdgeCollection.getHashFromFaces and the hash of the Edge constructor
getHashFromFaces(g, face1, face2) ==
    IF localeCompare(faceHash(g, face1), faceHash(g, face2)) = -1
    THEN faceHash(g, face1) \o <<"-">> \o faceHash(g, face2)
    ELSE faceHash(g, face2) \o <<"-">> \o faceHash(g, face1)

\* new Edge( face1, face2 ): cost is 1 - face1.normal . face2.normal
Edge(g, face1, face2) ==
    [face1 |-> face1, face2 |-> face2,
     cost |-> 1 - unitDot(computeNormal(g, face1), computeNormal(g, face2)),
     hash |-> getHashFromFaces(g, face1, face2)]

\* the value null where an edge is expected
NoEdge == [face1 |-> 0, face2 |-> 0, cost |-> 0, hash |-> <<>>]

\* new EdgeCollection()
EdgeCollection == [lutEdges |-> {}, arrEdgesByCost |-> <<>>]

\* lutEdges[ hash ]: the edge stored under the key, or NoEdge for undefined
lookup(lutEdges, hash) ==
    IF \E e \in lutEdges : e.hash = hash
    THEN CHOOSE e \in lutEdges : e.hash = hash
    ELSE NoEdge

\* delete lutEdges[ hash ]
deleteKey(lutEdges, hash) == {e \in lutEdges : e.hash # hash}

\* Triangle.equals
equals(g, face1, face2) == g.face[face1].hash = g.face[face2].hash

\* an edge taken as valid whatever the degrees of its faces
alwaysValid(g, e) == TRUE

isValid(g, e) == g.face[e.face1].degree < 2 /\ g.face[e.face2].degree < 2

isIsolated(g, e) == g.face[e.face1].degree = 0 /\ g.face[e.face2].degree = 0

incrementFaceDegrees(g, e) == incrementDegree(incrementDegree(g, e.face1), e.face2)

\* the binary search of EdgeCollection.add
RECURSIVE addSearch(_, _, _, _)
addSearch(c, cost, low, high) ==
    IF ~(low < high) THEN low
    ELSE LET mid == (low + high) \div 2
         IN  IF lookup(c.lutEdges, At(c.arrEdgesByCost, mid)).cost < cost
             THEN addSearch(c, cost, mid + 1, high)
             ELSE addSearch(c, cost, low, mid)

\* EdgeCollection.add( edge )
add(c, edge) ==
    IF lookup(c.lutEdges, edge.hash) # NoEdge THEN c
    ELSE [lutEdges |-> c.lutEdges \cup {edge},
          arrEdgesByCost |-> splice0(c.arrEdgesByCost,
              addSearch(c, edge.cost, 0, Len(c.arrEdgesByCost) - 1), edge.hash)]

\* EdgeCollection.remove( edge )
remove(c, edge) ==
    [lutEdges |-> deleteKey(c.lutEdges, edge.hash),
     arrEdgesByCost |-> IF indexOf(c.arrEdgesByCost, edge.hash) = -1
                        THEN c.arrEdgesByCost
                        ELSE splice1(c.arrEdgesByCost, indexOf(c.arrEdgesByCost, edge.hash))]

\* the inner loop of populateFromFaces, over the neighbors ns of face
RECURSIVE edgesOfFace(_, _, _, _, _)
edgesOfFace(g, face, ns, j, c) ==
    after(c,
        IF j >= Len(ns) THEN c
        ELSE LET hash == getHashFromFaces(g, face, At(ns, j))
             IN  IF lookup(c.lutEdges, hash) # NoEdge
                 THEN edgesOfFace(g, face, ns, j + 1, c)
                 ELSE edgesOfFace(g, face, ns, j + 1,
                          [lutEdges |-> c.lutEdges \cup {Edge(g, face, At(ns, j))},
                           arrEdgesByCost |-> Append(c.arrEdgesByCost, hash)]))

\* the loops of populateFromFaces over the faces and their neighbors
RECURSIVE edgesFromFaces(_, _, _, _)
edgesFromFaces(g, i, j, c) ==
    after(c,
        IF i >= Len(g.arrFaces) THEN c
        ELSE edgesFromFaces(g, i + 1, 0,
                 edgesOfFace(g, At(g.arrFaces, i), neighbors(g, At(g.arrFaces, i)), j, c)))

\* arrEdgesByCost.sort by cost (stable)
RECURSIVE sortEdges(_, _, _, _)
sortEdges(lutEdges, arr, i, acc) ==
    IF i > Len(arr) THEN acc
    ELSE LET cost   == lookup(lutEdges, arr[i]).cost
             before == Cardinality({k \in 1..Len(acc) :
                           lookup(lutEdges, acc[k]).cost <= cost})
         IN  sortEdges(lutEdges, arr, i + 1, splice0(acc, before, arr[i]))

\* EdgeCollection.populateFromFaces( arrFaces )
populateFromFaces(g) ==
    LET c == edgesFromFaces(g, 0, 0, EdgeCollection)
    IN  [c EXCEPT !.arrEdgesByCost = sortEdges(c.lutEdges, c.arrEdgesByCost, 1, <<>>)]

\* arrEdgesByCost.find of getMatchingEdge
RECURSIVE findHash(_, _, _, _)
findHash(arr, hashToMatch, hashToExclude, k) ==
    IF k > Len(arr) THEN <<>>
    ELSE IF (startsWith(arr[k], hashToMatch) \/ endsWith(arr[k], hashToMatch))
            /\ arr[k] # hashToExclude
         THEN arr[k]
         ELSE findHash(arr, hashToMatch, hashToExclude, k + 1)

\* EdgeCollection.getMatchingEdge( edgeToExclude, faceToMatch )
getMatchingEdge(g, c, edgeToExclude, faceToMatch) ==
    LET foundHash == findHash(c.arrEdgesByCost, faceHash(g, faceToMatch),
                              edgeToExclude.hash, 1)
    IN  IF foundHash = <<>> THEN NoEdge ELSE lookup(c.lutEdges, foundHash)

\* arrEdgesByCost.filter of getEdgesWithFace, from arrEdgesByCost[ k ] on
RECURSIVE filterHashes(_, _, _)
filterHashes(arr, hash, k) ==
    IF k > Len(arr) THEN <<>>
    ELSE IF startsWith(arr[k], hash) \/ endsWith(arr[k], hash)
         THEN <<arr[k]>> \o filterHashes(arr, hash, k + 1)
         ELSE filterHashes(arr, hash, k + 1)

\* EdgeCollection.getEdgesWithFace( face )
getEdgesWithFace(g, c, face) ==
    LET hashes == filterHashes(c.arrEdgesByCost, faceHash(g, face), 1)
    IN  [k \in 1..Len(hashes) |-> lookup(c.lutEdges, hashes[k])]

\* the do ... while loop of addIfNonLooping: "add", "loop", or "spin" when
\* the walk comes back to a pair ( chainedEdge, chainFace ) it has left before
RECURSIVE chainWalk(_, _, _, _, _, _)
chainWalk(g, c, testFace, chainedEdge, chainFace, seen) ==
    LET nextEdge == getMatchingEdge(g, c, chainedEdge, chainFace)
    IN  IF nextEdge = NoEdge THEN "add"
        ELSE LET nextFace == IF equals(g, nextEdge.face1, chainFace)
                             THEN nextEdge.face2 ELSE nextEdge.face1
             IN  IF g.face[nextFace].degree = 1 /\ ~equals(g, nextFace, testFace)
                 THEN "add"
                 ELSE IF equals(g, nextFace, testFace) THEN "loop"
                 ELSE IF <<nextEdge.hash, nextFace>> \in seen THEN "spin"
                 ELSE chainWalk(g, c, testFace, nextEdge, nextFace,
                                seen \cup {<<nextEdge.hash, nextFace>>})

\* EdgeCollection.addIfNonLooping( target )
addIfNonLooping(g, c, target) ==
    chainWalk(g, c, target.face1, target, target.face2, {})

\* classifyAndGroupEdges: the hashes of one of the three groups, in order
RECURSIVE groupHashes(_, _, _, _)
groupHashes(g, c, k, group) ==
    IF k > Len(c.arrEdgesByCost) THEN <<>>
    ELSE LET edge    == lookup(c.lutEdges, c.arrEdgesByCost[k])
             degree1 == g.face[edge.face1].degree
             degree2 == g.face[edge.face2].degree
             is == IF degree1 < 2 /\ degree2 < 2 THEN "isolated"
                   ELSE IF degree1 < 2 \/ degree2 < 2 THEN "terminal"
                   ELSE "connected"
         IN  (IF is = group THEN <<edge.hash>> ELSE <<>>)
                 \o groupHashes(g, c, k + 1, group)

\* one of the three collections classifyAndGroupEdges returns
classifyAndGroupEdges(g, c, group) ==
    LET hs == groupHashes(g, c, 1, group)
    IN  [lutEdges |-> {e \in c.lutEdges : indexOf(hs, e.hash) # -1},
         arrEdgesByCost |-> hs]

----------------------------------------------------------------------------
\* Input meshes of the decimator

\* a planar point set with integer pairwise distances (units of 2^-14)
Points == <<
    <<0, 0, 0>>, <<5, 0, 0>>, <<0, 12, 0>>, <<-5, 0, 0>>, <<0, -12, 0>>,
    <<9, 0, 0>>, <<-9, 0, 0>>, <<16, 0, 0>> >>

\* the triangles an input geometry is made of, as triples of points: a fan
\* around point 1, a triangle whose first two corners are at one position, a
\* flipped copy, an overlapping triangle, one whose last two corners are at
\* one position, a collinear one, and outer triangles
TrianglePool == <<
    <<1, 2, 3>>, <<1, 3, 4>>, <<6, 6, 3>>, <<1, 4, 5>>, <<1, 5, 2>>,
    <<2, 6, 3>>, <<1, 3, 2>>, <<2, 3, 4>>, <<3, 6, 6>>, <<2, 1, 4>>,
    <<4, 3, 7>>, <<2, 5, 6>>, <<6, 8, 3>> >>

\* an input geometry holds a subsequence of the first PoolSize triangles
PoolSize == 9

\* the triangles of the first n entries of pool chosen by the set S, in order
RECURSIVE chosen(_, _, _, _)
chosen(pool, n, S, i) ==
    IF i > n THEN <<>>
    ELSE IF i \in S THEN <<pool[i]>> \o chosen(pool, n, S, i + 1)
    ELSE chosen(pool, n, S, i + 1)

\* the position attribute of a non-indexed geometry made of triangles tris
RECURSIVE cornersOf(_, _, _)
cornersOf(points, tris, i) ==
    IF i > Len(tris) THEN <<>>
    ELSE <<points[tris[i][1]], points[tris[i][2]], points[tris[i][3]]>>
         \o cornersOf(points, tris, i + 1)

----------------------------------------------------------------------------
\* Input meshes of the path search

\* planar points (z = 0) with coordinates that are multiples of 6, so that
\* the face centers the code divides by 3 are exact
SearchPoints == <<
    <<6, 18, 0>>, <<0, 18, 0>>, <<0, 0, 0>>, <<18, 0, 0>>, <<18, 12, 0>>,
    <<6, 12, 0>>, <<0, 6, 0>>, <<6, 0, 0>>, <<12, 6, 0>>, <<6, 6, 0>>,
    <<18, 6, 0>>, <<12, 12, 0>>, <<12, 0, 0>> >>

\* triangles of one orientation around the first two points, then a flipped
\* copy of the first one and a collinear triple
GreedyPool == <<
    <<1, 2, 3>>, <<4, 1, 3>>, <<5, 2, 6>>, <<1, 7, 8>>, <<9, 2, 10>>,
    <<8, 11, 1>>, <<11, 12, 13>>, <<1, 13, 12>>, <<3, 2, 1>>, <<2, 3, 7>> >>

\* the greedy search runs on a subsequence of the first GreedyPoolSize triangles
GreedyPoolSize == 8

\* a triangle, its flipped copy, a neighbor, a collinear triple, a triangle
\* apart from those, one that joins it to them, and two more neighbors
PathPool == <<
    <<1, 2, 3>>, <<3, 2, 1>>, <<4, 1, 3>>, <<2, 3, 7>>, <<11, 12, 13>>,
    <<1, 13, 12>>, <<5, 2, 6>>, <<9, 2, 10>> >>

\* the other searches run on a subsequence of the first PathPoolSize triangles
PathPoolSize == 6

\* two tetrahedra without a common vertex
TetraPoints == <<
    <<0, 0, 0>>, <<12, 0, 0>>, <<0, 12, 0>>, <<0, 0, 12>>,
    <<60, 0, 0>>, <<72, 0, 0>>, <<60, 12, 0>>, <<60, 0, 12>> >>

TetraFaces == <<
    <<1, 3, 2>>, <<1, 2, 4>>, <<1, 4, 3>>, <<2, 3, 4>>,
    <<5, 7, 6>>, <<5, 6, 8>>, <<5, 8, 7>>, <<6, 7, 8>> >>

\* the orders of the members of S
RECURSIVE Orders(_)
Orders(S) ==
    IF S = {} THEN {<<>>}
    ELSE UNION {{<<x>> \o p : p \in Orders(S \ {x})} : x \in S}

\* what the search process is handed: the faces of a populated mesh graph
\* (the searches read the faces, their vertices, hashes and degrees; the
\* collapse costs of the vertices are left as the Vertex constructor sets them)
searchData(corners) == computeFaceHashes(addVerticesAndFaces(corners))

----------------------------------------------------------------------------
\* The caller of the mesh graph: populate, then collapse

MeshIdle ==
    /\ pc = "new"
    /\ mesh = EmptyMesh
    /\ count2 = 0
    /\ iter = 0
    /\ requested = 0
    /\ startCount = 0
    /\ popped = [u |-> 0, v |-> 0]
    /\ input = <<>>

\* GeometryModifier.populate( geometry )
Populate ==
    /\ pc = "new"
    /\ \E S \in SUBSET (1..PoolSize) :
           /\ input' = cornersOf(Points, chosen(TrianglePool, PoolSize, S, 1), 1)
           /\ mesh' = populateFromGeometry(input')
    /\ pc' = "populated"
    /\ UNCHANGED <<count2, iter, requested, startCount, popped, searchVars, weldVars, queueVars, stageVars>>

\* the head of collapse( count ): the substitution of half the vertex count
CollapseCall ==
    /\ pc = "populated"
    /\ \E count \in 0..(verticesCount(mesh) + 2) :
           /\ requested' = count
           /\ count2' = IF verticesCount(mesh) < count
                        THEN verticesCount(mesh) ELSE 2 * count
    /\ startCount' = verticesCount(mesh)
    /\ iter' = 0
    /\ pc' = "collapsing"
    /\ UNCHANGED <<mesh, popped, input, searchVars, weldVars, queueVars, stageVars>>

\* one pass through the body of for ( let i = 0; i < count; i++ )
CollapseIterate ==
    /\ pc = "collapsing"
    /\ 2 * iter < count2
    /\ \E r \in {collapseIteration(mesh)} :
           /\ mesh' = r.g
           /\ popped' = [u |-> r.u, v |-> r.v]
           /\ pc' = IF r.ok THEN "collapsing" ELSE "threw"
    /\ iter' = iter + 1
    /\ UNCHANGED <<count2, requested, startCount, input, searchVars, weldVars, queueVars, stageVars>>

\* the loop exit of collapse(): computeFaceHashes is named but not called
CollapseReturn ==
    /\ pc = "collapsing"
    /\ ~(2 * iter < count2)
    /\ pc' = "returned"
    /\ UNCHANGED <<mesh, count2, iter, requested, startCount, popped, input, searchVars, weldVars, queueVars, stageVars>>

----------------------------------------------------------------------------
\* SearchProcess: the search functions, one loop iteration at a time

\* no search function has been called
NoSearch ==
    /\ alg = "none"
    /\ sp = resetPreviousPoint
    /\ loc = [selectedCount |-> 0, currentFace |-> 0, startFace |-> 0,
              path |-> <<>>, previousIndex |-> -1, nextFace |-> 0]
    /\ paths = <<>>
    /\ edges = EdgeCollection
    /\ selectedEdges = EdgeCollection
    /\ terminalEdges = EdgeCollection
    /\ connectedEdges = EdgeCollection

\* new SearchProcess(): startProcess has not been called
SearchIdle ==
    /\ spc = "constructed"
    /\ NoSearch

greedyVars == <<edges, selectedEdges, terminalEdges, connectedEdges>>

\* what a search function leaves alone, SearchProcess.isDirty excepted
outerVars == <<pc, count2, iter, requested, startCount, popped, input,
               weldVars, queueVars, curveParams, curveResult, searches,
               terminatePaths, searchResult, callVars>>

callerVars == <<outerVars, isDirty>>

\* the search function of 'Nearest Neighbor': isDirty is set, then
\* nearestNeighborSearch( data ) runs up to its outer loop
NearestNeighborCall ==
    /\ spc = "idle"
    /\ alg' = "Nearest Neighbor"
    /\ isDirty' = TRUE
    /\ IF facesCount(mesh) < 2
       THEN spc' = "returned" /\ UNCHANGED loc
       ELSE /\ spc' = "outer"
            /\ loc' = [loc EXCEPT !.selectedCount = 0,
                                  !.currentFace = At(mesh.arrFaces, 0)]
    /\ paths' = <<>>
    /\ UNCHANGED <<mesh, sp, greedyVars, outerVars>>

\* the test of the outer loop and the statements before the first inner loop
NearestNeighborOuter ==
    /\ alg = "Nearest Neighbor" /\ spc = "outer"
    /\ IF loc.selectedCount < facesCount(mesh) /\ loc.currentFace # 0
       THEN /\ loc' = [loc EXCEPT !.startFace = loc.currentFace, !.path = <<>>]
            /\ sp' = resetPreviousPoint
            /\ spc' = "forward"
       ELSE /\ spc' = "returned"
            /\ UNCHANGED <<loc, sp>>
    /\ UNCHANGED <<alg, mesh, paths, greedyVars, callerVars>>

\* the first inner loop: one face appended, or the loop left and the walk
\* restarted from startFace
NearestNeighborForward ==
    /\ alg = "Nearest Neighbor" /\ spc = "forward"
    /\ IF loc.currentFace # 0
       THEN LET g1 == incrementDegree(mesh, loc.currentFace)
                s1 == getNextPoint(sp)
            IN  \E n \in getNearestNeighbor(g1, s1, loc.currentFace) :
                    /\ mesh' = chosenNeighbor(g1, n)
                    /\ sp' = s1
                    /\ loc' = [loc EXCEPT !.selectedCount = @ + 1,
                                          !.path = Append(@, loc.currentFace),
                                          !.currentFace = n]
                    /\ spc' = "forward"
       ELSE LET s1 == getNextPoint(resetPreviousPoint)
            IN  \E n \in getNearestNeighbor(mesh, s1, loc.startFace) :
                    /\ mesh' = chosenNeighbor(mesh, n)
                    /\ sp' = s1
                    /\ loc' = [loc EXCEPT !.currentFace = n]
                    /\ spc' = "backward"
    /\ UNCHANGED <<alg, paths, greedyVars, callerVars>>

\* the second inner loop: one face prepended, or the loop left, the path
\* kept when it has more than one point, and the next start face looked up
NearestNeighborBackward ==
    /\ alg = "Nearest Neighbor" /\ spc = "backward"
    /\ IF loc.currentFace # 0
       THEN LET g1 == incrementDegree(mesh, loc.currentFace)
                s1 == getNextPoint(sp)
            IN  \E n \in getNearestNeighbor(g1, s1, loc.currentFace) :
                    /\ mesh' = chosenNeighbor(g1, n)
                    /\ sp' = s1
                    /\ loc' = [loc EXCEPT !.selectedCount = @ + 1,
                                          !.path = <<loc.currentFace>> \o @,
                                          !.currentFace = n]
                    /\ spc' = "backward"
                    /\ UNCHANGED paths
       ELSE /\ paths' = IF Len(loc.path) > 1 THEN Append(paths, loc.path) ELSE paths
            /\ loc' = [loc EXCEPT !.currentFace = getStartFace(mesh, 1)]
            /\ spc' = "outer"
            /\ UNCHANGED <<mesh, sp>>
    /\ UNCHANGED <<alg, greedyVars, callerVars>>

\* whether a neighbor of face has the hash of prevFace
isConnected(g, face, prevFace) ==
    \E k \in 1..Len(neighbors(g, face)) :
        g.face[neighbors(g, face)[k]].hash = g.face[prevFace].hash

\* the for loop of sequentialWalk from faces[ i ] on: [paths, path, prevFace, sp]
RECURSIVE walkFaces(_, _, _)
walkFaces(g, i, acc) ==
    after(acc,
        IF i >= facesCount(g) THEN acc
        ELSE LET face == At(g.arrFaces, i)
                 step(connected) ==
                     IF connected
                     THEN [acc EXCEPT !.prevFace = face,
                                      !.path = Append(@, face),
                                      !.sp = getNextPoint(@)]
                     ELSE [paths |-> IF Len(acc.path) > 1
                                     THEN Append(acc.paths, acc.path) ELSE acc.paths,
                           path |-> <<face>>,
                           prevFace |-> face,
                           sp |-> getNextPoint(resetPreviousPoint)]
             IN  walkFaces(g, i + 1,
                     step(acc.prevFace = 0 \/ isConnected(g, face, acc.prevFace))))

\* sequentialWalk( data ): [paths, sp]
sequentialWalk(g) ==
    LET done(acc) ==
            [paths |-> IF Len(acc.path) > 1 THEN Append(acc.paths, acc.path) ELSE acc.paths,
             sp |-> acc.sp]
    IN  done(walkFaces(g, 0, [paths |-> <<>>, path |-> <<>>, prevFace |-> 0,
                              sp |-> resetPreviousPoint]))

\* sequentialWalk( data ), which changes no degree
SequentialWalk ==
    /\ spc = "idle"
    /\ alg' = "Sequential walk"
    /\ \E walked \in {sequentialWalk(mesh)} :
           /\ paths' = walked.paths
           /\ sp' = walked.sp
    /\ spc' = "returned"
    /\ UNCHANGED <<mesh, loc, greedyVars, callerVars>>

\* n calls of getNextPoint
RECURSIVE pointsTaken(_, _)
pointsTaken(s, n) == IF n = 0 THEN s ELSE pointsTaken(getNextPoint(s), n - 1)

\* the search function of 'Wrapping path search': isDirty is set, then
\* WrappingPathSearch( data ) runs up to its loop
WrappingCall ==
    /\ spc = "idle"
    /\ alg' = "Wrapping path search"
    /\ isDirty' = TRUE
    /\ LET r == getNextFace(mesh, -1, 0)
       IN  loc' = [loc EXCEPT !.previousIndex = r.previousIndex, !.nextFace = r.face]
    /\ paths' = <<>>
    /\ spc' = "paths"
    /\ UNCHANGED <<mesh, sp, greedyVars, outerVars>>

\* one pass through while ( nextFace ) of WrappingPathSearch
WrappingPath ==
    /\ alg = "Wrapping path search" /\ spc = "paths"
    /\ loc.nextFace # 0
    /\ \E found \in {findPathFromFace(mesh, loc.nextFace)} :
           /\ mesh' = found.g
           /\ paths' = Append(paths, found.path)
           /\ sp' = pointsTaken(resetPreviousPoint, Len(found.path))
           /\ LET r == getNextFace(found.g, loc.previousIndex, loc.previousIndex + 1)
              IN  loc' = [loc EXCEPT !.previousIndex = r.previousIndex,
                                     !.nextFace = r.face]
    /\ UNCHANGED <<alg, spc, greedyVars, callerVars>>

\* the exit of while ( nextFace )
WrappingReturn ==
    /\ alg = "Wrapping path search" /\ spc = "paths"
    /\ loc.nextFace = 0
    /\ spc' = "returned"
    /\ UNCHANGED <<mesh, alg, sp, loc, paths, greedyVars, callerVars>>

\* the search function of 'Greedy search': isDirty is set, then
\* greedySearch( data ) runs up to its selection loop
GreedyCall ==
    /\ spc = "idle"
    /\ alg' = "Greedy search"
    /\ isDirty' = TRUE
    /\ edges' = populateFromFaces(mesh)
    /\ spc' = IF Len(edges'.arrEdgesByCost) < 2 THEN "returned" ELSE "select"
    /\ selectedEdges' = EdgeCollection
    /\ paths' = <<>>
    /\ UNCHANGED <<mesh, sp, loc, terminalEdges, connectedEdges, outerVars>>

\* one pass through while ( edges.count > 0 ): the lowest cost edge is
\* popped and, when valid, added if isolated or if addIfNonLooping adds it
GreedySelect ==
    /\ alg = "Greedy search" /\ spc = "select"
    /\ Len(edges.arrEdgesByCost) > 0
    /\ \E target \in {lookup(edges.lutEdges, Head(edges.arrEdgesByCost))} :
       \E how \in {IF ~isValid(mesh, target) THEN "invalid"
                   ELSE IF isIsolated(mesh, target) THEN "add"
                   ELSE addIfNonLooping(mesh, selectedEdges, target)} :
           /\ edges' = [lutEdges |-> deleteKey(edges.lutEdges, target.hash),
                        arrEdgesByCost |-> Tail(edges.arrEdgesByCost)]
           /\ selectedEdges' = IF how = "add" THEN add(selectedEdges, target)
                               ELSE selectedEdges
           /\ mesh' = IF how = "add" THEN incrementFaceDegrees(mesh, target) ELSE mesh
           /\ spc' = IF how = "spin" THEN "spinning" ELSE "select"
    /\ UNCHANGED <<alg, sp, loc, paths, terminalEdges, connectedEdges, callerVars>>

\* the exit of the selection loop: classifyAndGroupEdges
GreedyClassify ==
    /\ alg = "Greedy search" /\ spc = "select"
    /\ Len(edges.arrEdgesByCost) = 0
    /\ terminalEdges' = classifyAndGroupEdges(mesh, selectedEdges, "terminal")
    /\ connectedEdges' = classifyAndGroupEdges(mesh, selectedEdges, "connected")
    /\ spc' = "paths"
    /\ UNCHANGED <<mesh, alg, sp, loc, paths, edges, selectedEdges, callerVars>>

\* the inner while ( target ) of the path construction:
\* [path, chainFace, connectedEdges]
RECURSIVE followChain(_, _, _, _, _)
followChain(g, c, target, chainFace, path) ==
    after(c,
        LET found == getMatchingEdge(g, c, target, chainFace)
        IN  IF found = NoEdge
            THEN [path |-> path, chainFace |-> chainFace, connectedEdges |-> c]
            ELSE followChain(g, remove(c, found), found,
                     IF equals(g, found.face1, chainFace) THEN found.face2 ELSE found.face1,
                     Append(path, chainFace)))

\* one pass through while ( terminalEdges.count > 0 && connectedEdges.count > 0 )
GreedyPath ==
    /\ alg = "Greedy search" /\ spc = "paths"
    /\ Len(terminalEdges.arrEdgesByCost) > 0 /\ Len(connectedEdges.arrEdgesByCost) > 0
    /\ \E target \in {lookup(terminalEdges.lutEdges, Head(terminalEdges.arrEdgesByCost))} :
       \E chain \in {followChain(mesh, connectedEdges, target,
                        IF mesh.face[target.face1].degree = 2
                        THEN target.face1 ELSE target.face2,
                        <<IF mesh.face[target.face1].degree = 2
                          THEN target.face2 ELSE target.face1>>)} :
       LET popped1 == [lutEdges |-> deleteKey(terminalEdges.lutEdges, target.hash),
                       arrEdgesByCost |-> Tail(terminalEdges.arrEdgesByCost)]
           path1 == Append(chain.path, chain.chainFace)
           last == getMatchingEdge(mesh, popped1, NoEdge, chain.chainFace)
           path2 == IF last = NoEdge THEN path1
                    ELSE Append(path1, IF equals(mesh, last.face1, chain.chainFace)
                                       THEN last.face2 ELSE last.face1)
       IN  /\ terminalEdges' = IF last = NoEdge THEN popped1 ELSE remove(popped1, last)
           /\ connectedEdges' = chain.connectedEdges
           /\ paths' = Append(paths, path2)
           /\ sp' = pointsTaken(resetPreviousPoint, Len(path2))
    /\ UNCHANGED <<mesh, alg, spc, loc, edges, selectedEdges, callerVars>>

\* the exit of the path construction loop
GreedyReturn ==
    /\ alg = "Greedy search" /\ spc = "paths"
    /\ ~(Len(terminalEdges.arrEdgesByCost) > 0 /\ Len(connectedEdges.arrEdgesByCost) > 0)
    /\ spc' = "returned"
    /\ UNCHANGED <<mesh, alg, sp, loc, paths, greedyVars, callerVars>>

----------------------------------------------------------------------------
\* Welding: indexAndMergeVertices on indexed and on non-indexed geometries

\* positions of which the first two and the last two share a key
WeldPoints == <<
    <<0, 0, 0>>, <<-1, 1, 0>>, <<2, 0, 0>>, <<3, 0, 0>> >>

\* a geometry handed to the welding has up to WeldTriangles triangles
WeldTriangles == 2

\* the position read for corner i (from 0): indices ? indices.getX( i ) : i
cornerPosition(g, i) ==
    LET index == IF g.indexed THEN At(g.index, i) ELSE i
    IN  At(g.position, index)

\* the positions the loop of indexAndMergeVertices hashes, corner by corner
cornerPositions(g) ==
    LET vertexCount == IF g.indexed THEN Len(g.index) ELSE Len(g.position)
    IN  [i \in 1..vertexCount |-> cornerPosition(g, i - 1)]

\* a BufferGeometry without an index: one position per corner
NonIndexed(position) == [position |-> position, index |-> <<>>, indexed |-> FALSE]

\* a BufferGeometry with an index into its position attribute
Indexed(position, index) == [position |-> position, index |-> index, indexed |-> TRUE]

\* no geometry was welded yet
WeldIdle ==
    /\ geometry = NonIndexed(<<>>)
    /\ welded = [positions |-> <<>>, indices |-> <<>>]

\* const { positions, indices } = this.indexAndMergeVertices( geometry.clone() )
\* in the populate of a new GeometryModifier, on a non-indexed geometry
WeldNonIndexed ==
    /\ WeldIdle
    /\ \E n \in 1..WeldTriangles :
       \E picks \in [1..(3 * n) -> 1..Len(WeldPoints)] :
           geometry' = NonIndexed([i \in 1..(3 * n) |-> WeldPoints[picks[i]]])
    /\ welded' = indexAndMergeVertices(cornerPositions(geometry'))
    /\ UNCHANGED <<meshVars, searchVars, queueVars, stageVars>>

\* the same call on an indexed geometry whose position attribute is WeldPoints
WeldIndexed ==
    /\ WeldIdle
    /\ \E n \in 1..WeldTriangles :
       \E index \in [1..(3 * n) -> 0..(Len(WeldPoints) - 1)] :
           geometry' = Indexed(WeldPoints, index)
    /\ welded' = indexAndMergeVertices(cornerPositions(geometry'))
    /\ UNCHANGED <<meshVars, searchVars, queueVars, stageVars>>

----------------------------------------------------------------------------
\* main.js: the process queue run by requestIdleCallback

Null == "null"

\* processArray, by processName
processArray == <<"Loading", "Pre-processing", "Searching", "Curve intrapolation",
                  "Simulation">>

ProcessNames == {processArray[i] : i \in 1..Len(processArray)}

\* at most MaxStarts calls of startProcess, and MaxReads file reads and
\* parses of their contents in flight
MaxStarts == 6

MaxReads == 2

\* what input.files[ 0 ] can be: no file, or a file with this extension
SourceFiles == {"undefined", "obj", "glb", "txt"}

\* a Process.result: {} is "empty", the whole output of a successful run is
\* "full", what a run had assigned before it threw is "partial"
NoData == [none |-> TRUE]

\* the three queue variables as one value
Queue == [id |-> nextProcessQueueID, run |-> nextProcessToRun,
          data |-> nextProcessToRunData]

SetQueue(q) ==
    /\ nextProcessQueueID' = q.id
    /\ nextProcessToRun' = q.run
    /\ nextProcessToRunData' = q.data

\* requestIdleCallback( runQueuedProcess ) returns a handle, which is not 0
requestIdleCallback(process, processData) == [id |-> 1, run |-> process, data |-> processData]

\* queueProcess( process, processData ) with the queue q and the state st
queueProcess(q, st, process, processData) ==
    LET newProcessIndex == indexOf(processArray, process)
        found == indexOf(processArray, st)
        index == IF found = -1 THEN Len(processArray) ELSE found
    IN  IF q.id = 0
        THEN IF newProcessIndex > index + 1 THEN q
             ELSE requestIdleCallback(process, processData)
        ELSE IF newProcessIndex < indexOf(processArray, q.run)
             THEN requestIdleCallback(process, processData)
             ELSE q

clearQueue == [id |-> 0, run |-> Null, data |-> NoData]

\* a reference to the result object of a process: each process has one
\* result object at a time, replaced when the process is started
resultOf(processName) == [resultOf |-> processName]

\* onProcessCompleted( processName ): the next process is queued
onProcessCompleted(q, st, processName) ==
    LET i == indexOf(processArray, processName)
    IN  IF i + 1 < Len(processArray)
        THEN queueProcess(q, st, At(processArray, i + 1), resultOf(processName))
        ELSE q

\* loadDefaultSourceFile()
loadDefaultSourceFile(q, st) == queueProcess(q, st, "Loading", [loadDefaultSource |-> TRUE])

\* the default source requested without the queue cleared
requestDefault(q, st) == loadDefaultSourceFile(q, st)

\* onProcessError( err )
onProcessError(q, st) == loadDefaultSourceFile(clearQueue, st)

\* LoadingProcess.startProcess( params ) up to its return: the default source
\* is completed at once, a file of a known format is handed to a FileReader
LoadingStart(params) ==
    IF params.loadDefaultSource
    THEN [result |-> "full", ended |-> "completed", reads |-> 0, gltf |-> 0]
    ELSE IF params.sourceFile \in {"gltf", "glb"}
         THEN [result |-> "empty", ended |-> "started", reads |-> 1, gltf |-> 1]
         ELSE IF params.sourceFile \in {"obj", "fbx"}
         THEN [result |-> "empty", ended |-> "started", reads |-> 1, gltf |-> 0]
         ELSE [result |-> "empty", ended |-> "failed", reads |-> 0, gltf |-> 0]

\* startProcess( params ) of the other processes, which run inside the call:
\* params is the result of the process before; threw says whether the run
\* throws on a result that is not empty, and left what it had assigned then
StageStart(params, threw, left) ==
    IF params = "empty"
    THEN [result |-> "empty", ended |-> "failed", reads |-> 0, gltf |-> 0]
    ELSE IF threw THEN [result |-> left, ended |-> "failed", reads |-> 0, gltf |-> 0]
    ELSE [result |-> "full", ended |-> "completed", reads |-> 0, gltf |-> 0]

\* SimulationProcess.startProcess( params ): it reads params.curves and
\* assigns nothing to this.result, which stays {}
SimulationStart(params, threw) ==
    IF params = "empty" \/ threw
    THEN [result |-> "empty", ended |-> "failed", reads |-> 0, gltf |-> 0]
    ELSE [result |-> "empty", ended |-> "completed", reads |-> 0, gltf |-> 0]

\* no process reset
resetNone(roots, index) == roots

\* the loop of runQueuedProcess: reset() of the processes after index
resetLater(roots, index) ==
    [p \in ProcessNames |->
        IF indexOf(processArray, p) > index THEN "empty" ELSE roots[p]]

\* the root of a process when a run of it has ended, or has not yet: the
\* mesh or the lines are added last, and reset() empties the root when the
\* run starts and when it fails
rootAfter(how) == IF how = "completed" THEN "filled" ELSE "empty"

\* process.startProcess( processData )
startProcess(process, processData, res, threw, left) ==
    IF process = "Loading" THEN LoadingStart(processData)
    ELSE IF process = "Simulation"
         THEN SimulationStart(res[processData.resultOf], threw)
         ELSE StageStart(res[processData.resultOf], threw, left)

\* what the callback of a run that ended leaves in the queue
callback(q, st, processName, how) ==
    IF how = "completed" THEN onProcessCompleted(q, st, processName)
    ELSE IF how = "failed" THEN onProcessError(q, st)
    ELSE q

\* the request that loadDefaultSourceFile queues
defaultRequest == requestIdleCallback("Loading", [loadDefaultSource |-> TRUE])

\* the default source is not queued, or a GUI handler has made a request since
NoDefaultRun == [on |-> FALSE, started |-> <<>>]

\* the default source is queued and no process has been started since
DefaultRun == [on |-> TRUE, started |-> <<>>]

\* the run of the default source after a call of queueProcess that leaves q
queuedRun(q) == IF q = defaultRequest THEN DefaultRun ELSE NoDefaultRun

\* the run of the default source after process is started and ends as how: a
\* failure queues the default source anew
startedRun(run, process, how) ==
    IF how = "failed" THEN DefaultRun
    ELSE IF run.on THEN [run EXCEPT !.started = Append(@, process)]
    ELSE run

\* no handler has called queueProcess since the last callback ran
NoRequest == [process |-> Null, data |-> NoData, queued |-> FALSE]

\* the state of main.js when the module is loaded
QueueIdle ==
    /\ nextProcessQueueID = 0
    /\ nextProcessToRun = Null
    /\ nextProcessToRunData = NoData
    /\ state = "Loading"
    /\ result = [p \in ProcessNames |-> "empty"]
    /\ ended = [p \in ProcessNames |-> "none"]
    /\ reading = 0
    /\ readingGLTF = 0
    /\ parsing = 0
    /\ starts = 0
    /\ root = [p \in ProcessNames |-> "empty"]
    /\ defaultRun = NoDefaultRun
    /\ lastRequest = NoRequest

\* a GUI handler calls queueProcess( process, processData )
asked(process, processData) ==
    [process |-> process, data |-> processData, queued |-> nextProcessQueueID # 0]

\* what the GUI handlers leave alone
handlerVars == <<state, result, ended, reading, readingGLTF, parsing, starts, root, meshVars, searchVars, weldVars,
                 stageVars>>

\* loadDefaultSourceFile(): the button, and the font loader when it is done
LoadDefaultSourceFile ==
    /\ SetQueue(loadDefaultSourceFile(Queue, state))
    /\ defaultRun' = queuedRun(loadDefaultSourceFile(Queue, state))
    /\ lastRequest' = asked("Loading", [loadDefaultSource |-> TRUE])
    /\ UNCHANGED handlerVars

\* the change event of the file input that browseSourceFile() opened
BrowseSourceFile ==
    /\ \E params \in {[sourceFile |-> sourceFile, loadDefaultSource |-> FALSE] :
                          sourceFile \in SourceFiles} :
           /\ SetQueue(queueProcess(Queue, state, "Loading", params))
           /\ lastRequest' = asked("Loading", params)
    /\ defaultRun' = NoDefaultRun
    /\ UNCHANGED handlerVars

\* onReductionFactorChange()
OnReductionFactorChange ==
    /\ SetQueue(queueProcess(Queue, state, "Pre-processing", resultOf("Loading")))
    /\ lastRequest' = asked("Pre-processing", resultOf("Loading"))
    /\ defaultRun' = NoDefaultRun
    /\ UNCHANGED handlerVars

\* onSearchChange()
OnSearchChange ==
    /\ SetQueue(queueProcess(Queue, state, "Searching", resultOf("Pre-processing")))
    /\ lastRequest' = asked("Searching", resultOf("Pre-processing"))
    /\ defaultRun' = NoDefaultRun
    /\ UNCHANGED handlerVars

\* onPointMultiplierChange()
OnPointMultiplierChange ==
    /\ SetQueue(queueProcess(Queue, state, "Simulation", resultOf("Curve intrapolation")))
    /\ lastRequest' = asked("Simulation", resultOf("Curve intrapolation"))
    /\ defaultRun' = NoDefaultRun
    /\ UNCHANGED handlerVars

\* runQueuedProcess(), the idle callback, with the startProcess it calls and
\* the onCompleted or onError that startProcess calls before it returns
RunQueuedProcess ==
    /\ nextProcessQueueID # 0
    /\ starts < MaxStarts
    /\ IF indexOf(processArray, nextProcessToRun) = -1
       THEN /\ SetQueue(clearQueue)
            /\ UNCHANGED <<state, result, ended, reading, readingGLTF, starts, root,
                           defaultRun>>
       ELSE \E threw \in BOOLEAN : \E left \in {"empty", "partial"} :
            \E process \in {nextProcessToRun} :
            \E r \in {startProcess(process, nextProcessToRunData,
                                   [result EXCEPT ![process] = "empty"], threw, left)} :
                /\ reading + parsing + r.reads <= MaxReads
                /\ state' = process
                /\ starts' = starts + 1
                /\ result' = [result EXCEPT ![process] = r.result]
                /\ ended' = [ended EXCEPT ![process] = r.ended]
                /\ reading' = reading + r.reads
                /\ readingGLTF' = readingGLTF + r.gltf
                /\ root' = [resetLater(root, indexOf(processArray, process))
                               EXCEPT ![process] = rootAfter(r.ended)]
                /\ defaultRun' = startedRun(defaultRun, process, r.ended)
                /\ SetQueue(callback(clearQueue, process, process, r.ended))
    /\ lastRequest' = NoRequest
    /\ UNCHANGED <<parsing, meshVars, searchVars, weldVars, stageVars>>

\* the load event of the FileReader of an .obj or .fbx file: loadOther
\* parses the contents and loadObject completes the Loading process, or one
\* of them fails
FileReadLoad ==
    /\ reading > readingGLTF
    /\ reading' = reading - 1
    /\ \E loaded \in BOOLEAN :
           IF loaded
           THEN /\ result' = [result EXCEPT !["Loading"] = "full"]
                /\ ended' = [ended EXCEPT !["Loading"] = "completed"]
                /\ root' = [root EXCEPT !["Loading"] = rootAfter("completed")]
                /\ defaultRun' = defaultRun
                /\ SetQueue(onProcessCompleted(Queue, state, "Loading"))
           ELSE /\ result' = result
                /\ ended' = [ended EXCEPT !["Loading"] = "failed"]
                /\ root' = [root EXCEPT !["Loading"] = rootAfter("failed")]
                /\ defaultRun' = DefaultRun
                /\ SetQueue(onProcessError(Queue, state))
    /\ lastRequest' = NoRequest
    /\ UNCHANGED <<state, readingGLTF, parsing, starts, meshVars, searchVars, weldVars,
                   stageVars>>

\* the load event of the FileReader of a .gltf or .glb file: loadGLTF hands
\* the contents to GLTFLoader.parse and returns
FileReadLoadGLTF ==
    /\ readingGLTF > 0
    /\ reading' = reading - 1
    /\ readingGLTF' = readingGLTF - 1
    /\ parsing' = parsing + 1
    /\ UNCHANGED <<nextProcessQueueID, nextProcessToRun, nextProcessToRunData, state,
                   result, ended, starts, root, defaultRun, lastRequest, meshVars,
                   searchVars, weldVars, stageVars>>

\* a callback of GLTFLoader.parse: the first calls loadObject, which
\* completes the Loading process or fails, the second handleError
ParseGLTF ==
    /\ parsing > 0
    /\ parsing' = parsing - 1
    /\ \E loaded \in BOOLEAN :
           IF loaded
           THEN /\ result' = [result EXCEPT !["Loading"] = "full"]
                /\ ended' = [ended EXCEPT !["Loading"] = "completed"]
                /\ root' = [root EXCEPT !["Loading"] = rootAfter("completed")]
                /\ defaultRun' = defaultRun
                /\ SetQueue(onProcessCompleted(Queue, state, "Loading"))
           ELSE /\ result' = result
                /\ ended' = [ended EXCEPT !["Loading"] = "failed"]
                /\ root' = [root EXCEPT !["Loading"] = rootAfter("failed")]
                /\ defaultRun' = DefaultRun
                /\ SetQueue(onProcessError(Queue, state))
    /\ lastRequest' = NoRequest
    /\ UNCHANGED <<state, reading, readingGLTF, starts, meshVars, searchVars, weldVars,
                   stageVars>>

\* the error event of a FileReader, of a file of either kind
FileReadError ==
    /\ reading > 0
    /\ reading' = reading - 1
    /\ \E gltf \in {0, 1} :
           /\ gltf <= readingGLTF
           /\ reading - readingGLTF >= 1 - gltf
           /\ readingGLTF' = readingGLTF - gltf
    /\ ended' = [ended EXCEPT !["Loading"] = "failed"]
    /\ root' = [root EXCEPT !["Loading"] = rootAfter("failed")]
    /\ defaultRun' = DefaultRun
    /\ SetQueue(onProcessError(Queue, state))
    /\ lastRequest' = NoRequest
    /\ UNCHANGED <<state, result, parsing, starts, meshVars, searchVars, weldVars,
                   stageVars>>

----------------------------------------------------------------------------
\* CurveIntrapolationProcess.startProcess: the sampling interval and the
\* number of samples.  Path points lie on one line and are integers in units
\* of 2^-12 (a coordinate n is the double n / 4096), so that distances, squared
\* distances and their sums are exact in the code's arithmetic.  A path has two
\* points and is fitted by the segment between them: the length of its curve
\* is the distance of the two points, up to the rounding of the sum
\* Curve.getLength() adds up.  An interval is a fraction [num, den] of units.

Fraction(num, den) == [num |-> num, den |-> den]

\* a < b for fractions with positive denominators
Less(a, b) == a.num * b.den < b.num * a.den

FMin(a, b) == IF Less(b, a) THEN b ELSE a

FMax(a, b) == IF Less(a, b) THEN b ELSE a

\* the values Math.ceil( curve.getLength() / pointInterval ) can take for a
\* curve of this length and an interval above 0: when the length is a multiple
\* of the interval the rounding of getLength() decides between the quotient
\* and the next integer
CeilDiv(length, interval) ==
    LET up == (length * interval.den + interval.num - 1) \div interval.num
    IN  IF (length * interval.den) % interval.num = 0 THEN {up, up + 1} ELSE {up}

\* the length of the line through the points of a path
RECURSIVE polylineLength(_, _)
polylineLength(path, k) ==
    IF k >= Len(path) THEN 0
    ELSE Abs(path[k + 1] - path[k]) + polylineLength(path, k + 1)

\* totalLength: the first loop of startProcess
RECURSIVE totalLength(_, _)
totalLength(pathList, i) ==
    IF i > Len(pathList) THEN 0
    ELSE polylineLength(pathList[i], 1) + totalLength(pathList, i + 1)

\* pointInterval: 0.0012 and 0.001 are 3072 / 625 and 512 / 125 units; when
\* pointCount > 2 and totalLength / pointInterval > 3 * pointCount the interval
\* is widened
pointInterval(params) ==
    LET base == FMin(Fraction(3072, 625),
                     FMax(Fraction(512, 125), Fraction(params.shortestEdge, 2)))
        total == totalLength(params.paths, 1)
    IN  IF params.pointCount > 2
           /\ total * base.den > 3 * params.pointCount * base.num
        THEN Fraction(total, 3 * params.pointCount)
        ELSE base

\* the least integer that is not below the square of the interval
CeilSqrd(interval) ==
    (interval.num * interval.num + interval.den * interval.den - 1)
        \div (interval.den * interval.den)

\* the inner loop of the removal of excess points, from path[ j ] down:
\* [path, lengthSqrd, prevPoint]; lengthSqrd < intervalSqrd for the integer
\* lengthSqrd
RECURSIVE removePoints(_, _, _, _, _)
removePoints(path, j, lengthSqrd, prevPoint, interval) ==
    IF j < 0 THEN path
    ELSE LET point == At(path, j)
             sum == lengthSqrd + (point - prevPoint) * (point - prevPoint)
         IN  IF sum < CeilSqrd(interval)
             THEN removePoints(splice1(path, j), j - 1, sum, point, interval)
             ELSE removePoints(path, j - 1, 0, point, interval)

\* the outer loop of the removal, from paths[ i ] down
RECURSIVE removeExcess(_, _, _)
removeExcess(pathList, i, interval) ==
    IF i < 0 THEN pathList
    ELSE LET path == At(pathList, i)
             kept == removePoints(path, Len(path) - 2, 0, Last(path), interval)
             put == [pathList EXCEPT ![i + 1] = kept]
         IN  removeExcess(IF Len(kept) < 2 THEN splice1(put, i) ELSE put, i - 1, interval)

\* no later path found
noBestPath(pathList, endPoint, j, best, bestDistanceSqrd) == -1

\* the position j > i of the path whose first point is nearest to endPoint,
\* or -1: the inner loop of the sorting of the paths
RECURSIVE bestPath(_, _, _, _, _)
bestPath(pathList, endPoint, j, best, bestDistanceSqrd) ==
    IF j >= Len(pathList) THEN best
    ELSE LET d == (endPoint - At(pathList, j)[1]) * (endPoint - At(pathList, j)[1])
         IN  IF bestDistanceSqrd = -1 \/ d < bestDistanceSqrd
             THEN bestPath(pathList, endPoint, j + 1, j, d)
             ELSE bestPath(pathList, endPoint, j + 1, best, bestDistanceSqrd)

\* the sorting of the paths: each is followed by the nearest of the later ones
RECURSIVE sortPaths(_, _)
sortPaths(pathList, i) ==
    IF i >= Len(pathList) THEN pathList
    ELSE LET best == bestPath(pathList, Last(At(pathList, i)), i + 1, -1, -1)
         IN  IF best # -1 /\ best # i + 1
             THEN sortPaths([pathList EXCEPT ![best + 1] = At(pathList, i + 1),
                                             ![i + 2] = At(pathList, best)], i + 1)
             ELSE sortPaths(pathList, i + 1)

\* curve.getLength() of the CatmullRomCurve3 through the two points of a path,
\* up to its rounding
curveLength(path) ==
    CASE Len(path) = 2 -> Abs(path[2] - path[1])

\* what the loop over the paths can add to curves for one path: nothing
\* unless curve.getLength() > pointInterval, else the curve with its numPoints;
\* a curve as long as the interval is kept or not as getLength() is rounded,
\* and when kept its quotient is above 1
fitCurve(path, interval) ==
    LET length == Fraction(curveLength(path), 1)
        kept == {[curve |-> path, numPoints |-> n] :
                     n \in {m \in CeilDiv(curveLength(path), interval) : m >= 2}}
    IN  (IF Less(length, interval) THEN {} ELSE {<<c>> : c \in kept})
            \cup (IF Less(interval, length) THEN {} ELSE {<<>>})

\* the lists of curves the loop over the paths can build from pathList[ i ] on
RECURSIVE fitCurves(_, _, _)
fitCurves(pathList, i, interval) ==
    IF i > Len(pathList) THEN {<<>>}
    ELSE {a \o b : a \in fitCurve(pathList[i], interval),
                   b \in fitCurves(pathList, i + 1, interval)}

\* the results the try block of startProcess( params ) can produce
curveIntrapolation(params) ==
    LET interval == pointInterval(params)
        build(fitted) ==
            [curves |-> [k \in 1..Len(fitted) |-> fitted[k].curve],
             pointInterval |-> interval,
             numPoints |-> [k \in 1..Len(fitted) |-> fitted[k].numPoints]]
        fit(pathList) ==
            {build(fitted) : fitted \in fitCurves(sortPaths(pathList, 0), 1, interval)}
    IN  fit(IF Less(Fraction(params.shortestEdge, 1), interval)
            THEN removeExcess(params.paths, Len(params.paths) - 1, interval)
            ELSE params.paths)

\* the segments the input paths are taken from
SegmentPool == <<
    <<0, 48>>, <<100, 197>>, <<304, 300>>, <<400, 463>>, <<500, 511>>, <<600, 725>> >>

\* the input paths are a subsequence of the first CurvePoolSize segments
CurvePoolSize == 6

\* the values of params.shortestEdge
ShortestEdges == {4, 9, 300}

NoParams == [paths |-> <<>>, shortestEdge |-> 0, pointCount |-> 0]

NoCurves == [curves |-> <<>>, pointInterval |-> Fraction(0, 1), numPoints |-> <<>>]

\* the state of a CurveIntrapolationProcess that was not started
CurveIdle ==
    /\ curveParams = NoParams
    /\ curveResult = NoCurves

\* the paths not sorted yet
NoSorting == [given |-> <<>>, sorted |-> <<>>]

\* no call of getNearestNeighbor yet
NoNearest ==
    [face |-> 0, previousVector |-> <<0, 0, 0>>, before |-> EmptyMesh, returned |-> 0]

\* this.result = {} of Process.startProcess
NoResult == [paths |-> <<>>, pointCount |-> 0]

\* new SearchProcess(): isDirty and terminatePaths are false
ProcessIdle ==
    /\ isDirty = FALSE
    /\ searches = 0
    /\ terminatePaths = FALSE
    /\ searchResult = NoResult

\* no single call has been made
CallIdle ==
    /\ nearest = NoNearest
    /\ sorting = NoSorting

StageIdle == CurveIdle /\ ProcessIdle /\ CallIdle

\* the number of points of the paths: result.pointCount of the search
RECURSIVE countPoints(_, _)
countPoints(pathList, i) ==
    IF i > Len(pathList) THEN 0
    ELSE Len(pathList[i]) + countPoints(pathList, i + 1)

\* curveIntrapolationProcess.startProcess( searchProcess.result )
CurveStart ==
    /\ CurveIdle
    /\ \E S \in SUBSET (1..CurvePoolSize) : \E shortestEdge \in ShortestEdges :
       \E pathList \in {chosen(SegmentPool, CurvePoolSize, S, 1)} :
           curveParams' = [paths |-> pathList, shortestEdge |-> shortestEdge,
                           pointCount |-> countPoints(pathList, 1)]
    /\ \E r \in curveIntrapolation(curveParams') : curveResult' = r
    /\ UNCHANGED <<meshVars, searchVars, weldVars, queueVars, isDirty, searches,
                   terminatePaths, searchResult,
                   callVars>>

----------------------------------------------------------------------------
\* The sorting of the paths in the curve builder

\* the paths to sort are some of the first SortPoolSize segments, in any order
SortPoolSize == 5

\* the sequence of the segments of seq the positions in order name
arranged(seq, order) == [k \in 1..Len(order) |-> seq[order[k]]]

\* the loop of startProcess that sorts the paths
SortPaths ==
    /\ sorting = NoSorting
    /\ \E S \in SUBSET (1..SortPoolSize) : \E order \in Orders(S) :
       \E pathList \in {arranged(SegmentPool, order)} :
           sorting' = [given |-> pathList, sorted |-> sortPaths(pathList, 0)]
    /\ UNCHANGED <<meshVars, searchVars, weldVars, queueVars, curveParams,
                   curveResult, isDirty, searches, terminatePaths, searchResult,
                   nearest>>

----------------------------------------------------------------------------
\* getNearestNeighbor called on a face of a mesh some faces of which are visited

\* the travel directions previousVector is drawn from
Directions == {<<1, 0, 0>>, <<-1, 0, 0>>, <<0, 1, 0>>, <<0, -1, 0>>, <<1, 1, 0>>}

\* the faces of S given degree 1
visit(g, S) ==
    [g EXCEPT !.face = [f \in DOMAIN g.face |->
        IF f \in S THEN [g.face[f] EXCEPT !.degree = 1] ELSE g.face[f]]]

\* getNearestNeighbor( face ) on a visited face, with a previousVector
GetNearestNeighbor ==
    /\ spc = "idle"
    /\ nearest = NoNearest
    /\ \E face \in {mesh.arrFaces[k] : k \in 1..Len(mesh.arrFaces)} :
       \E S \in SUBSET {mesh.arrFaces[k] : k \in 1..Len(mesh.arrFaces)} :
       \E prevVector \in Directions :
       \E g1 \in {visit(mesh, S \cup {face})} :
       \E n \in nearestByDirection(g1, face, prevVector) :
           /\ mesh' = chosenNeighbor(g1, n)
           /\ nearest' = [face |-> face, previousVector |-> prevVector,
                          before |-> g1, returned |-> n]
    /\ UNCHANGED <<pc, count2, iter, requested, startCount, popped, input,
                   searchVars, weldVars, queueVars, curveParams, curveResult,
                   isDirty, searches, terminatePaths, searchResult, sorting>>

----------------------------------------------------------------------------
\* The search process started again on the mesh of an earlier search

\* startProcess is called at most MaxSearches times
MaxSearches == 3

\* the degrees as the last search left them
keepDegrees(g) == g

\* faces[ j ].degree = 0 for the faces of the geometry
resetDegrees(g) ==
    [g EXCEPT !.face = [f \in DOMAIN g.face |->
        IF indexOf(g.arrFaces, f) # -1
        THEN [g.face[f] EXCEPT !.degree = 0]
        ELSE g.face[f]]]

\* SearchProcess.startProcess( params ) up to the call of the search
\* function, when no call of startProcess is running; without geometry data
\* it throws, and the process is reset and reports the error
SearchStartProcess ==
    /\ spc \in {"constructed", "completed", "failed"}
    /\ searches < MaxSearches
    /\ searches' = searches + 1
    /\ searchResult' = NoResult
    /\ \E geometryData \in {"missing", "present"} :
           IF geometryData = "missing"
           THEN /\ mesh' = mesh
                /\ isDirty' = isDirty
                /\ spc' = "failed"
           ELSE /\ mesh' = IF isDirty THEN resetDegrees(mesh) ELSE mesh
                /\ isDirty' = FALSE
                /\ spc' = "idle"
    /\ UNCHANGED <<alg, sp, loc, paths, greedyVars, pc, count2, iter, requested,
                   startCount, popped, input, weldVars, queueVars,
                   curveParams, curveResult, terminatePaths, callVars>>

\* the controller of 'Terminate the paths', when no call of startProcess is
\* running: it sets searchProcess.terminatePaths and calls onSearchChange()
OnTerminatePathsChange ==
    /\ spc \in {"constructed", "completed", "failed"}
    /\ terminatePaths' = ~terminatePaths
    /\ SetQueue(queueProcess(Queue, state, "Searching", resultOf("Pre-processing")))
    /\ lastRequest' = asked("Searching", resultOf("Pre-processing"))
    /\ defaultRun' = NoDefaultRun
    /\ UNCHANGED <<state, result, ended, reading, readingGLTF, parsing, starts, root,
                   meshVars, searchVars, weldVars, curveParams, curveResult,
                   isDirty, searches, searchResult, callVars>>

\* some coordinate is 0 at every vertex of the mesh: it is 0 at every face
\* center and at every point getNextPoint returns, with no rounding
zeroAxis(g) ==
    \E k \in 1..3 : \A v \in DOMAIN g.vertex : g.vertex[v].position[k] = 0

\* the points the loops of terminatePathPoints pass for the path at i: all
\* those of the other paths, and of the path itself those from the third to
\* the last but two
passedPoints(searchPaths, i) ==
    UNION {{searchPaths[j][k] :
                k \in IF i = j THEN 3..(Len(searchPaths[j]) - 2)
                               ELSE 1..Len(searchPaths[j])} :
               j \in 1..Len(searchPaths)}

\* what terminatePathPoints can put before or behind the path at i for its
\* end point: nothing, or the nearest of the passed points that differ from
\* point in x, in y and in z.  A point is given by the face it was taken on.
\* No point differs in a coordinate that is 0 everywhere, and no point differs
\* from itself; of the others the coordinates are rounded quotients, which
\* are not carried, so that any of them can be the one
terminal(g, searchPaths, i, point) ==
    IF zeroAxis(g) THEN {<<>>}
    ELSE {<<>>} \cup {<<q>> : q \in passedPoints(searchPaths, i) \ {point}}

\* the lists of paths terminatePathPoints( searchPaths ) can leave, from the
\* path at i on
RECURSIVE terminatePathPoints(_, _, _)
terminatePathPoints(g, searchPaths, i) ==
    IF i > Len(searchPaths) THEN {searchPaths}
    ELSE UNION {terminatePathPoints(
                    g, [searchPaths EXCEPT ![i] = terminalStart \o @ \o terminalEnd],
                    i + 1) :
                    terminalStart \in terminal(g, searchPaths, i, searchPaths[i][1]),
                    terminalEnd \in terminal(g, searchPaths, i, Last(searchPaths[i]))}

\* SearchProcess.startProcess( params ) after the search function has
\* returned: the paths are terminated if terminatePaths is set, result.paths
\* and result.pointCount are assigned and the process completes
SearchComplete ==
    /\ spc = "returned"
    /\ \E searchPaths \in IF terminatePaths THEN terminatePathPoints(mesh, paths, 1)
                                            ELSE {paths} :
           searchResult' = [paths |-> searchPaths,
                            pointCount |-> countPoints(searchPaths, 1)]
    /\ spc' = "completed"
    /\ UNCHANGED <<alg, sp, loc, paths, greedyVars, meshVars, weldVars, queueVars,
                   curveParams, curveResult, isDirty, searches, terminatePaths,
                   callVars>>

----------------------------------------------------------------------------
\* Specifications

\* the faces of a mesh graph are there for the search process, which was not
\* started
HandedOver(corners) ==
    /\ pc = "populated"
    /\ input = corners
    /\ mesh = searchData(corners)
    /\ count2 = 0
    /\ iter = 0
    /\ requested = 0
    /\ startCount = 0
    /\ popped = [u |-> 0, v |-> 0]
    /\ NoSearch
    /\ WeldIdle
    /\ QueueIdle
    /\ StageIdle

\* a search function is about to be called on the faces of a mesh graph
SearchOn(corners) ==
    /\ HandedOver(corners)
    /\ spc = "idle"

\* nothing was populated, searched, welded, queued or started
Idle == MeshIdle /\ SearchIdle /\ WeldIdle /\ QueueIdle /\ StageIdle

MeshInit == Idle

MeshNext == Populate \/ CollapseCall \/ CollapseIterate \/ CollapseReturn

MeshSpec == MeshInit /\ [][MeshNext]_vars

PathInit ==
    \E S \in SUBSET (1..PathPoolSize) :
        SearchOn(cornersOf(SearchPoints, chosen(PathPool, PathPoolSize, S, 1), 1))

PathNext ==
    \/ NearestNeighborCall \/ NearestNeighborOuter
    \/ NearestNeighborForward \/ NearestNeighborBackward
    \/ WrappingCall \/ WrappingPath \/ WrappingReturn

PathSpec == PathInit /\ [][PathNext]_vars /\ WF_vars(PathNext)

GreedyInit ==
    \E S \in SUBSET (1..GreedyPoolSize) :
        SearchOn(cornersOf(SearchPoints, chosen(GreedyPool, GreedyPoolSize, S, 1), 1))

GreedyNext ==
    GreedyCall \/ GreedySelect \/ GreedyClassify \/ GreedyPath \/ GreedyReturn

GreedySpec == GreedyInit /\ [][GreedyNext]_vars

\* the four search functions on the meshes of the path search
StrategyInit == PathInit

StrategyNext ==
    \/ SequentialWalk
    \/ NearestNeighborCall \/ NearestNeighborOuter
    \/ NearestNeighborForward \/ NearestNeighborBackward
    \/ WrappingCall \/ WrappingPath \/ WrappingReturn
    \/ GreedyCall \/ GreedySelect \/ GreedyClassify \/ GreedyPath \/ GreedyReturn

StrategySpec == StrategyInit /\ [][StrategyNext]_vars

\* three faces of each tetrahedron, which lie in the three coordinate planes
CornerFaces == <<TetraFaces[1], TetraFaces[2], TetraFaces[3],
                 TetraFaces[5], TetraFaces[6], TetraFaces[7]>>

\* the search process started again and again, with any of the search
\* algorithms, on the meshes of the path search and on the corner faces
ProcessInit ==
    /\ spc = "constructed"
    /\ \/ \E S \in SUBSET (1..PathPoolSize) :
              HandedOver(cornersOf(SearchPoints, chosen(PathPool, PathPoolSize, S, 1), 1))
       \/ HandedOver(cornersOf(TetraPoints, CornerFaces, 1))

ProcessNext ==
    \/ SearchStartProcess \/ OnTerminatePathsChange \/ SearchComplete
    \/ StrategyNext

ProcessSpec == ProcessInit /\ [][ProcessNext]_vars

\* getNearestNeighbor on the meshes of the path search
NearestInit == PathInit

NearestNext == GetNearestNeighbor

NearestSpec == NearestInit /\ [][NearestNext]_vars

\* the sorting of the paths of the curve builder
SortInit == Idle

SortNext == SortPaths

SortSpec == SortInit /\ [][SortNext]_vars

TetraInit ==
    \E order \in Orders(1..Len(TetraFaces)) :
        SearchOn(cornersOf(TetraPoints, [k \in 1..Len(order) |-> TetraFaces[order[k]]], 1))

TetraNext == WrappingCall \/ WrappingPath \/ WrappingReturn

TetraSpec == TetraInit /\ [][TetraNext]_vars

WeldInit == Idle

WeldNext == WeldNonIndexed \/ WeldIndexed

WeldSpec == WeldInit /\ [][WeldNext]_vars

PipelineInit == Idle

PipelineNext ==
    \/ LoadDefaultSourceFile \/ BrowseSourceFile
    \/ OnReductionFactorChange \/ OnSearchChange \/ OnTerminatePathsChange
    \/ OnPointMultiplierChange
    \/ RunQueuedProcess \/ FileReadLoad \/ FileReadLoadGLTF \/ ParseGLTF
    \/ FileReadError

PipelineSpec == PipelineInit /\ [][PipelineNext]_vars

\* the process queue when every idle callback that is requested and not
\* cancelled is called in the end
IdleSpec == PipelineSpec /\ WF_vars(RunQueuedProcess)

CurveInit == Idle

CurveNext == CurveStart

CurveSpec == CurveInit /\ [][CurveNext]_vars

----------------------------------------------------------------------------
\* Properties of the decimator

FaceIds(g) == {g.arrFaces[k] : k \in 1..Len(g.arrFaces)}

VertexIds(g) == {g.arrVertices[k] : k \in 1..Len(g.arrVertices)}

\* the welded triangles of the populated geometry had three distinct vertices
DistinctInput ==
    LET indices == indexAndMergeVertices(input).indices
    IN  \A t \in 0..((Len(indices) \div 3) - 1) :
            /\ At(indices, 3 * t) # At(indices, 3 * t + 1)
            /\ At(indices, 3 * t + 1) # At(indices, 3 * t + 2)
            /\ At(indices, 3 * t) # At(indices, 3 * t + 2)

\* the collapseCost of the vertex at the front of arrVerticesByCost
frontCost(g) ==
    g.vertex[At(g.arrVertices, At(g.arrVerticesByCost, 0))].collapseCost

\* C1: collapse( k ) with 0 <= k <= V ends by returning, and the vertex
\* count is then V - k
C1_RemovesExactlyK ==
    (pc \in {"returned", "threw"} /\ requested <= startCount)
        => (pc = "returned" /\ verticesCount(mesh) = startCount - requested)

\* C2: whenever an iteration of collapse is about to pop the front of the
\* cost index, that vertex has a collapseCost no greater than the collapseCost
\* of every vertex of the mesh graph
C2_PopsGlobalMinimum ==
    (pc = "collapsing" /\ 2 * iter < count2
        /\ definedAt(mesh, mesh.arrVerticesByCost, 0))
        => \A x \in VertexIds(mesh) : frontCost(mesh) <= mesh.vertex[x].collapseCost

\* C3: when every face of the populated mesh has three distinct vertices,
\* every face in the face list has three distinct vertices after any number
\* of collapse iterations
C3_FacesStayDistinct ==
    DistinctInput
        => \A f \in FaceIds(mesh) :
               LET fr == mesh.face[f]
               IN  fr.v1 # fr.v2 /\ fr.v2 # fr.v3 /\ fr.v1 # fr.v3

\* an edge collapse has moved the faces of u onto v, and faces remain around v
C3_Witness ==
    /\ DistinctInput
    /\ pc = "collapsing"
    /\ iter >= 1
    /\ popped.v # 0
    /\ \E f \in FaceIds(mesh) :
           /\ hasVertex(mesh.face[f], popped.v)
           /\ mesh.face[f].hash # computeHash(mesh, f)

\* C7: collapse( count ) with count > V returns, having removed exactly V / 2
\* vertices for even V and at most V / 2 for odd V
C7_ClampedToHalf ==
    (pc \in {"returned", "threw"} /\ requested > startCount)
        => /\ pc = "returned"
           /\ IF startCount % 2 = 0
              THEN 2 * (startCount - verticesCount(mesh)) = startCount
              ELSE 2 * (startCount - verticesCount(mesh)) <= startCount

\* C8: when collapse has returned, the hash of every face in the face list is
\* the one computed from the sorted indices of its three vertices
C8_HashesCurrentOnReturn ==
    pc = "returned"
        => \A f \in FaceIds(mesh) : mesh.face[f].hash = computeHash(mesh, f)

----------------------------------------------------------------------------
\* Properties of the path searches

\* the faces a walk from the faces S over Triangle.neighbors can reach
RECURSIVE connectedTo(_, _)
connectedTo(g, S) ==
    LET T == S \cup {h \in FaceIds(g) :
                        \E f \in S : indexOf(neighbors(g, f), h) # -1}
    IN  IF T = S THEN S ELSE connectedTo(g, T)

\* the faces of the mesh form one connected component
ConnectedMesh(g) ==
    facesCount(g) > 0 /\ connectedTo(g, {At(g.arrFaces, 0)}) = FaceIds(g)

\* no face is left unvisited
Covered(g) == \A f \in FaceIds(g) : g.face[f].degree >= 1

PathSearches == {"Nearest Neighbor", "Wrapping path search"}

\* C4 as stated: Nearest Neighbor search and Wrapping path search return, and
\* when they have returned every face of a connected mesh has degree >= 1
C4_ReturnsWithEveryFaceVisited ==
    /\ <>(spc = "returned")
    /\ []((spc = "returned" /\ alg \in PathSearches /\ ConnectedMesh(mesh))
            => Covered(mesh))

\* C4 with the faces counted: Nearest Neighbor search and Wrapping path
\* search return; when Wrapping path search has returned every face of a
\* connected mesh has degree >= 1, and when Nearest Neighbor search has
\* returned every face of a connected mesh of at least two faces has
\* degree >= 1
C4_ReturnsWithEveryFaceVisitedFromTwoFaces ==
    /\ <>(spc = "returned")
    /\ []((spc = "returned" /\ alg \in PathSearches /\ ConnectedMesh(mesh)
              /\ (alg = "Nearest Neighbor" => facesCount(mesh) >= 2))
            => Covered(mesh))

\* Nearest Neighbor search has returned paths on a connected mesh of three
\* or more faces
C4_Witness ==
    /\ spc = "returned"
    /\ alg = "Nearest Neighbor"
    /\ ConnectedMesh(mesh)
    /\ facesCount(mesh) >= 3
    /\ Len(paths) >= 1
    /\ Covered(mesh)

\* the faces joined to the faces S by the edges E
RECURSIVE joined(_, _)
joined(E, S) ==
    LET T == S \cup {e.face1 : e \in {x \in E : x.face2 \in S}}
               \cup {e.face2 : e \in {x \in E : x.face1 \in S}}
    IN  IF T = S THEN S ELSE joined(E, T)

\* no edge of E closes a cycle: its faces are not joined by the other edges
Forest(E) == \A e \in E : e.face2 \notin joined(E \ {e}, {e.face1})

\* C5: during greedy search the graph of the faces and the accepted edges
\* is a forest after every acceptance
C5_AcceptedEdgesAreForest ==
    alg = "Greedy search" => Forest(selectedEdges.lutEdges)

\* is face f a face of the second tetrahedron
inSecond(g, f) == g.vertex[g.face[f].v1].position[1] >= 60

\* the path holds four different faces, all of one tetrahedron
OneTetrahedron(g, path) ==
    /\ Len(path) = 4
    /\ Cardinality({path[k] : k \in 1..4}) = 4
    /\ \A k \in 1..4 : inSecond(g, path[k]) = inSecond(g, path[1])

\* C6: Wrapping path search on two disjoint tetrahedra, in whatever order
\* the faces are listed, returns exactly two paths, one holding the four
\* faces of each tetrahedron: every path it finds holds the four faces of one
\* tetrahedron, no two paths are of the same tetrahedron, and when it returns
\* the paths are two
C6_TwoPathsOfFourFaces ==
    (alg = "Wrapping path search" /\ facesCount(mesh) = 8)
        => /\ \A k \in 1..Len(paths) : OneTetrahedron(mesh, paths[k])
           /\ \A k \in 1..Len(paths) : \A l \in 1..Len(paths) :
                  k # l => inSecond(mesh, paths[k][1]) # inSecond(mesh, paths[l][1])
           /\ spc = "returned" => Len(paths) = 2

\* the search has returned on a face list that starts with a face of the
\* second tetrahedron and alternates between the two tetrahedra
C6_Witness ==
    /\ alg = "Wrapping path search"
    /\ spc = "returned"
    /\ facesCount(mesh) = 8
    /\ inSecond(mesh, At(mesh.arrFaces, 0))
    /\ ~inSecond(mesh, At(mesh.arrFaces, 1))
    /\ inSecond(mesh, At(mesh.arrFaces, 2))
    /\ Len(paths) = 2

----------------------------------------------------------------------------
\* Properties of the welding

\* the vertices of the face that populateFromGeometry builds for triangle t
weldedTriangle(g, t) == <<g.face[t].v1, g.face[t].v2, g.face[t].v3>>

\* C9: welding yields no more vertices than the geometry has corners and one
\* index per corner, every index is the position of a welded vertex, two
\* corners get the same index exactly when their positions have the same
\* quantized key, and populateFromGeometry makes one face of the three
\* indices of every input triangle
C9_WeldedIndicesFollowKeys ==
    LET corners == cornerPositions(geometry)
        n == Len(corners)
        g == addVerticesAndFaces(corners)
    IN  /\ Len(welded.positions) <= n
        /\ Len(welded.indices) = n
        /\ \A k \in 1..n : welded.indices[k] \in 0..(Len(welded.positions) - 1)
        /\ \A k \in 1..n : \A l \in 1..n :
               (welded.indices[k] = welded.indices[l])
                   <=> (getHash(corners[k]) = getHash(corners[l]))
        /\ Len(g.arrFaces) = n \div 3
        /\ \A t \in 1..(n \div 3) :
               weldedTriangle(g, t) = <<welded.indices[3 * t - 2] + 1,
                                        welded.indices[3 * t - 1] + 1,
                                        welded.indices[3 * t] + 1>>

\* an indexed geometry of two triangles in which corners at different
\* positions were welded and which has a degenerate welded triangle
C9_Witness ==
    /\ geometry.indexed
    /\ Len(welded.indices) = 6
    /\ Len(welded.positions) = 2
    /\ \E k \in 1..6 : \E l \in 1..6 :
           /\ At(geometry.index, k - 1) # At(geometry.index, l - 1)
           /\ welded.indices[k] = welded.indices[l]
    /\ welded.indices[1] = welded.indices[2]
    /\ welded.indices[4] # welded.indices[5]

----------------------------------------------------------------------------
\* Properties of the process queue

\* startProcess of the process at position i of processArray is called
Starts(i) == starts' # starts /\ state' = At(processArray, i)

\* C10: a process after Loading is started only when the last run of the
\* process before it completed successfully, and when no earlier process is
\* in progress: none has a run that did not end, no file read and no parse
\* of the contents of a file is in flight
C10_StartsAfterPredecessorCompleted ==
    [][\A i \in 1..(Len(processArray) - 1) :
           Starts(i) =>
               /\ ended[At(processArray, i - 1)] = "completed"
               /\ \A j \in 0..(i - 1) : ended[At(processArray, j)] # "started"
               /\ reading = 0 /\ parsing = 0]_vars

\* C11: when a GUI handler calls queueProcess while a request is queued and
\* no callback has run since, the process started next is the one the call
\* named, and it is started with the data of the call
C11_NewerRequestPreempts ==
    [][(starts' # starts /\ lastRequest.queued) =>
           /\ state' = lastRequest.process
           /\ nextProcessToRunData = lastRequest.data]_vars

----------------------------------------------------------------------------
\* Properties of the curve builder

RECURSIVE SumSeq(_, _)
SumSeq(s, i) == IF i > Len(s) THEN 0 ELSE s[i] + SumSeq(s, i + 1)

\* C12: for a target point count above 2, the numbers of samples of the
\* fitted curves add up to at most three times the target point count
C12_SamplesWithinThreeTimesTarget ==
    curveParams.pointCount > 2
        => SumSeq(curveResult.numPoints, 1) <= 3 * curveParams.pointCount

----------------------------------------------------------------------------
\* Properties of the search functions and of the search process

\* C13: a search function that has returned on a mesh of fewer than two
\* faces has returned an empty list of paths
C13_NoPathFromFewerThanTwoFaces ==
    (spc = "returned" /\ facesCount(mesh) < 2) => paths = <<>>

\* the vertices two faces have in common
sharedVertices(g, f1, f2) ==
    {g.face[f1].v1, g.face[f1].v2, g.face[f1].v3}
        \cap {g.face[f2].v1, g.face[f2].v2, g.face[f2].v3}

\* the edges of the collection that join two faces
edgesOfPair(c, f1, f2) ==
    {e \in c.lutEdges : {e.face1, e.face2} = {f1, f2}}

\* two faces are taken as adjacent: each is among the neighbors of the other
\* and the collection holds one edge for the pair
adjacent(g, c, f1, f2) ==
    /\ indexOf(neighbors(g, f1), f2) # -1
    /\ indexOf(neighbors(g, f2), f1) # -1
    /\ Cardinality(edgesOfPair(c, f1, f2)) = 1

\* C14: once the edges are populated from the faces, two distinct faces are
\* taken as adjacent exactly when they have two vertices in common
C14_AdjacentIffSharedMeshEdge ==
    (alg = "Greedy search" /\ spc = "select" /\ selectedEdges = EdgeCollection) =>
        \A i, j \in 1..Len(mesh.arrFaces) :
            i < j =>
                (adjacent(mesh, edges, mesh.arrFaces[i], mesh.arrFaces[j])
                    <=> Cardinality(sharedVertices(mesh, mesh.arrFaces[i],
                                                   mesh.arrFaces[j])) >= 2)

\* every face of the face list has degree 0
degreesAreZero(g) ==
    \A i \in 1..Len(g.arrFaces) : g.face[g.arrFaces[i]].degree = 0

\* C15: when a search function is about to be called by startProcess, every
\* face of the mesh has degree 0, whatever searches ran on the mesh before
C15_DegreesZeroWhenSearchStarts ==
    spc = "idle" => degreesAreZero(mesh)

\* the search function is about to be called for the third time on a mesh
\* of which the last search left faces with a degree
C15_Witness ==
    /\ spc = "idle"
    /\ searches = 3
    /\ facesCount(mesh) >= 2
    /\ alg # "Sequential walk"

----------------------------------------------------------------------------
\* Properties of the mesh graph between the iterations of collapse

\* populate has run and no iteration of collapse has thrown
Completed == pc \in {"populated", "collapsing", "returned"}

\* an iteration of collapse is about to run and finds a vertex to pop
Pending ==
    /\ pc = "collapsing"
    /\ 2 * iter < count2
    /\ definedAt(mesh, mesh.arrVerticesByCost, 0)

\* the number of entries of s equal to x
occurrences(s, x) == Cardinality({k \in 1..Len(s) : s[k] = x})

\* arrVerticesByCost holds each of 0 .. V - 1 once and nothing else
holdsEachPosition(g) ==
    /\ Len(g.arrVerticesByCost) = verticesCount(g)
    /\ \A i \in 0..(verticesCount(g) - 1) : occurrences(g.arrVerticesByCost, i) = 1

\* C16: after populate, after every call of removeVertex and after every
\* completed iteration of collapse, the cost index holds each vertex position
\* 0 .. V - 1 exactly once
C16_CostIndexIsPermutation ==
    /\ Completed => holdsEachPosition(mesh)
    /\ Pending => holdsEachPosition(vertexRemoved(mesh))

\* the collapseCost of the vertex arrVerticesByCost[ k ] names
costAt(g, k) == g.vertex[At(g.arrVertices, At(g.arrVerticesByCost, k))].collapseCost

\* arrVerticesByCost is in non-decreasing order of collapseCost
sortedByCost(g) ==
    \A k \in 0..(Len(g.arrVerticesByCost) - 2) :
        /\ definedAt(g, g.arrVerticesByCost, k)
        /\ definedAt(g, g.arrVerticesByCost, k + 1)
        /\ costAt(g, k) <= costAt(g, k + 1)

\* C17: after populate and after every completed iteration of collapse, the
\* cost index is in non-decreasing order of the current collapseCost
C17_CostIndexSorted ==
    Completed => sortedByCost(mesh)

\* the three vertices of a face
corners(g, f) == {g.face[f].v1, g.face[f].v2, g.face[f].v3}

\* C18: after populate and after every completed iteration of collapse, every
\* vertex of a face of the face list is in the vertex list and has the face
\* once among its faces, and every face among the faces of a vertex of the
\* vertex list is in the face list and has that vertex
C18_FacesAndVerticesAgree ==
    Completed =>
        /\ \A f \in FaceIds(mesh) : \A x \in corners(mesh, f) :
               /\ x \in VertexIds(mesh)
               /\ occurrences(mesh.vertex[x].faces, f) = 1
        /\ \A x \in VertexIds(mesh) :
               \A k \in 1..Len(mesh.vertex[x].faces) :
                   /\ mesh.vertex[x].faces[k] \in FaceIds(mesh)
                   /\ x \in corners(mesh, mesh.vertex[x].faces[k])

\* the vertex at position i of arrVertices has index i
positionsIndexed(g) ==
    \A i \in 0..(verticesCount(g) - 1) : g.vertex[At(g.arrVertices, i)].index = i

\* what buildGeometry pushes for a face names the vertices of the face
facesIndexed(g) ==
    \A f \in FaceIds(g) : \A x \in corners(g, f) :
        /\ 0 <= g.vertex[x].index
        /\ g.vertex[x].index < verticesCount(g)
        /\ At(g.arrVertices, g.vertex[x].index) = x

\* C19: after every call of removeVertex and after every completed iteration
\* of collapse the vertex at position i has index i, and between the
\* iterations the index of every vertex of a face of the face list is a
\* position of the vertex list that holds that vertex
C19_IndicesArePositions ==
    /\ Completed => (positionsIndexed(mesh) /\ facesIndexed(mesh))
    /\ Pending => positionsIndexed(vertexRemoved(mesh))

\* collapse has removed a vertex that was not the last of the vertex list,
\* and faces are left
C19_Witness ==
    /\ Completed
    /\ iter >= 1
    /\ facesCount(mesh) >= 1
    /\ \E i \in 0..(verticesCount(mesh) - 1) :
           At(mesh.arrVertices, i) # i + 1

\* an iteration of collapse up to the end of its first loop
sideFacesDeleted(g) ==
    LET u == At(g.arrVertices, At(g.arrVerticesByCost, 0))
    IN  deleteSideFaces(g, u, g.vertex[u].collapseNeighbor, Len(g.vertex[u].faces) - 1)

\* two distinct vertices of the vertex list are among each other's neighbors
\* exactly when a face of the face list has both, and no neighbor list names
\* a vertex twice
neighborsFollowFaces(g) ==
    \A x, y \in VertexIds(g) :
        x # y =>
            /\ (indexOf(g.vertex[x].neighbors, y) # -1)
                   <=> (\E f \in FaceIds(g) : {x, y} \subseteq corners(g, f))
            /\ (indexOf(g.vertex[x].neighbors, y) # -1)
                   <=> (indexOf(g.vertex[y].neighbors, x) # -1)
            /\ occurrences(g.vertex[x].neighbors, y) <= 1

\* C20: after populate, after the calls of removeFace of an iteration and
\* after every completed iteration of collapse, the neighbor lists follow
\* the faces of the face list
C20_NeighborsFollowFaces ==
    /\ Completed => neighborsFollowFaces(mesh)
    /\ (Pending /\ mesh.vertex[At(mesh.arrVertices, At(mesh.arrVerticesByCost, 0))]
                       .collapseNeighbor # 0)
           => neighborsFollowFaces(sideFacesDeleted(mesh))

\* an iteration has removed faces and with them the last face of a pair of
\* vertices that are both still in the vertex list, and faces are left
C20_Witness ==
    /\ Completed
    /\ iter >= 1
    /\ popped.v # 0
    /\ facesCount(mesh) >= 1
    /\ LET before == populateFromGeometry(input)
       IN  \E x, y \in VertexIds(mesh) :
               /\ x # y
               /\ indexOf(before.vertex[x].neighbors, y) # -1
               /\ indexOf(mesh.vertex[x].neighbors, y) = -1

\* the vertices of the vertex list that have no neighbors
isolatedVertices(g) == {x \in VertexIds(g) : g.vertex[x].neighbors = <<>>}

\* C21: an iteration of collapse that starts on a mesh graph with a vertex
\* without neighbors removes a vertex without neighbors, and no face is
\* removed or changed by it
C21_IsolatedVertexRemovedFirst ==
    [][(pc = "collapsing" /\ iter' = iter + 1 /\ isolatedVertices(mesh) # {}) =>
           /\ pc' = "collapsing"
           /\ popped'.u \in isolatedVertices(mesh)
           /\ popped'.v = 0
           /\ VertexIds(mesh') = VertexIds(mesh) \ {popped'.u}
           /\ mesh'.arrFaces = mesh.arrFaces
           /\ mesh'.face = mesh.face]_vars

\* the vertices of face f in order, with u replaced by v
replaced(g, f, u, v) ==
    LET to(x) == IF x = u THEN v ELSE x
    IN  <<to(g.face[f].v1), to(g.face[f].v2), to(g.face[f].v3)>>

\* the vertices of face f in order
triple(g, f) == <<g.face[f].v1, g.face[f].v2, g.face[f].v3>>

\* C22: a completed iteration of collapse on an edge uv removes from the face
\* list exactly the faces with both u and v, replaces u by v in the other
\* faces with u, removes u and no other vertex, and leaves the vertices of
\* the faces without u and the positions of the remaining vertices unchanged
C22_CollapseChangesOnlyTheEdge ==
    [][(pc = "collapsing" /\ iter' = iter + 1 /\ pc' = "collapsing"
            /\ popped'.v # 0) =>
           /\ FaceIds(mesh') =
                  {f \in FaceIds(mesh) :
                      ~({popped'.u, popped'.v} \subseteq corners(mesh, f))}
           /\ \A f \in FaceIds(mesh') :
                  triple(mesh', f) = replaced(mesh, f, popped'.u, popped'.v)
           /\ VertexIds(mesh') = VertexIds(mesh) \ {popped'.u}
           /\ \A x \in VertexIds(mesh') :
                  mesh'.vertex[x].position = mesh.vertex[x].position]_vars

\* the first iteration has collapsed an edge uv: a face with both is gone
\* and a face that had u is left, now with v
C22_Witness ==
    /\ pc = "collapsing"
    /\ iter = 1
    /\ popped.v # 0
    /\ popped.v # popped.u
    /\ LET before == populateFromGeometry(input)
       IN  /\ facesCount(mesh) < facesCount(before)
           /\ \E f \in FaceIds(mesh) :
                  /\ popped.u \in corners(before, f)
                  /\ popped.v \in corners(mesh, f)

\* C23: after populate and after every completed iteration of collapse, the
\* collapseNeighbor of a vertex of the vertex list is null exactly when the
\* vertex has no neighbors, and is otherwise one of its neighbors and a
\* vertex of the vertex list
C23_CollapseNeighborIsNeighbor ==
    Completed =>
        \A x \in VertexIds(mesh) :
            /\ (mesh.vertex[x].collapseNeighbor = 0)
                   <=> (mesh.vertex[x].neighbors = <<>>)
            /\ mesh.vertex[x].collapseNeighbor # 0 =>
                   /\ indexOf(mesh.vertex[x].neighbors,
                              mesh.vertex[x].collapseNeighbor) # -1
                   /\ mesh.vertex[x].collapseNeighbor \in VertexIds(mesh)

\* the first iteration has removed the vertex that was the collapseNeighbor
\* of a vertex still in the vertex list
C23_Witness ==
    /\ pc = "collapsing"
    /\ iter = 1
    /\ popped.v # 0
    /\ \E x \in VertexIds(mesh) :
           populateFromGeometry(input).vertex[x].collapseNeighbor = popped.u

\* the cosine of the angle between prevVector and the direction from face to
\* neighbor a is at least that of neighbor b (a direction of length 0
\* normalizes to the zero vector)
cosineAtLeast(g, face, prevVector, a, b) ==
    LET along(n)  == dot(prevVector, sub(computeCenter(g, n), computeCenter(g, face)))
        length(n) == LET d == sub(computeCenter(g, n), computeCenter(g, face))
                     IN  IF dot(d, d) = 0 THEN 1 ELSE dot(d, d)
    IN  IF along(a) >= 0 /\ along(b) <= 0 THEN TRUE
        ELSE IF along(a) < 0 /\ along(b) >= 0 THEN FALSE
        ELSE IF along(a) >= 0
             THEN along(a) * along(a) * length(b) >= along(b) * along(b) * length(a)
             ELSE along(a) * along(a) * length(b) <= along(b) * along(b) * length(a)

\* the neighbors of a face that have degree 0
eligible(g, face) ==
    {n \in FaceIds(g) : indexOf(neighbors(g, face), n) # -1 /\ g.face[n].degree < 1}

\* C24: the face getNearestNeighbor returns when there is a travel direction
\* is a neighbor of degree 0 of the current face, and no neighbor of degree 0
\* has a smaller cost 1 - dot( previous direction, direction to its center )
C24_NearestHasLeastCost ==
    nearest.returned # 0 =>
        /\ nearest.returned \in eligible(nearest.before, nearest.face)
        /\ \A n \in eligible(nearest.before, nearest.face) :
               cosineAtLeast(nearest.before, nearest.face, nearest.previousVector,
                             nearest.returned, n)

\* one of the two faces of edge e is the face (Triangle.equals)
hasFace(g, e, face) == equals(g, e.face1, face) \/ equals(g, e.face2, face)

\* the lookups by face on collection c return edges of the face only, and
\* getEdgesWithFace returns every edge of the face
lookupsByFace(g, c) ==
    \A face \in FaceIds(g) :
        LET found == getEdgesWithFace(g, c, face)
            match == getMatchingEdge(g, c, NoEdge, face)
        IN  /\ \A k \in 1..Len(found) : hasFace(g, found[k], face)
            /\ \A e \in c.lutEdges :
                   hasFace(g, e, face) => \E k \in 1..Len(found) : found[k] = e
            /\ match # NoEdge => hasFace(g, match, face)

\* C25: on the collections of the greedy search and for every face of the
\* mesh, getMatchingEdge and getEdgesWithFace return only edges one of whose
\* two faces is that face, and getEdgesWithFace returns all of them
C25_LookupsReturnEdgesOfTheFace ==
    alg = "Greedy search" =>
        /\ lookupsByFace(mesh, edges)
        /\ lookupsByFace(mesh, selectedEdges)

\* C26: from all degrees 0, during and after the run of any of the four
\* search functions the degree of every face is 0, 1 or 2
C26_DegreesAtMostTwo ==
    \A i \in 1..Len(mesh.arrFaces) : mesh.face[mesh.arrFaces[i]].degree \in {0, 1, 2}

\* a search function has returned and has left a face with degree 2
C26_Witness ==
    /\ spc = "returned"
    /\ alg # "none"
    /\ \E i \in 1..Len(mesh.arrFaces) : mesh.face[mesh.arrFaces[i]].degree = 2

\* the squared distance from the last point of path p to the first of path q
gapSqrd(p, q) == (Last(p) - q[1]) * (Last(p) - q[1])

\* C27: the sorting of the paths returns the paths it was given, each once
\* and none reversed, with the first one in place, and afterwards the first
\* point of the path at i + 1 is no farther from the last point of the path
\* at i than the first point of any later path
C27_SortedPathsFollowNearest ==
    LET given  == sorting.given
        sorted == sorting.sorted
    IN  /\ Len(sorted) = Len(given)
        /\ \A k \in 1..Len(given) : occurrences(sorted, given[k]) = occurrences(given, given[k])
        /\ Len(given) > 0 => sorted[1] = given[1]
        /\ \A i \in 1..(Len(sorted) - 1) : \A k \in (i + 1)..Len(sorted) :
               gapSqrd(sorted[i], sorted[i + 1]) <= gapSqrd(sorted[i], sorted[k])

\* three or more paths were given and the sorting has moved some
C27_Witness ==
    /\ Len(sorting.given) >= 3
    /\ sorting.sorted # sorting.given

----------------------------------------------------------------------------
\* Properties of the process queue after an error

\* a step in which the process that is started, or a file read, fails
errorReported ==
    \/ starts' = starts + 1 /\ ended'[state'] = "failed"
    \/ reading' = reading - 1 /\ parsing' = parsing /\ ended'["Loading"] = "failed"
    \/ parsing' = parsing - 1 /\ ended'["Loading"] = "failed"

\* a step that starts the Loading process on the default source, which
\* completes inside the call
defaultLoadingStarts ==
    /\ starts' = starts + 1
    /\ state' = "Loading"
    /\ reading' = reading
    /\ parsing' = parsing
    /\ ended'["Loading"] = "completed"

\* C28: a step in which a process reports an error leaves the request for the
\* default source as the only one in the queue, and that request stays
\* queued, whatever is requested, until a step starts the Loading process
\* on the default source; no other process is started while it is queued
C28_ErrorQueuesDefaultLoading ==
    [][/\ errorReported => Queue' = defaultRequest
       /\ Queue = defaultRequest =>
              \/ Queue' = defaultRequest /\ starts' = starts
              \/ defaultLoadingStarts]_vars

\* the process started last has failed, the default source is queued and a
\* request of a GUI handler that came afterwards has left it there
C28_Witness ==
    /\ ended[state] = "failed"
    /\ Queue = defaultRequest
    /\ lastRequest.process \in ProcessNames
    /\ lastRequest.data # [loadDefaultSource |-> TRUE]

----------------------------------------------------------------------------
\* Properties of the roots of the processes

\* the processes after the one that state names
laterProcesses ==
    {p \in ProcessNames : indexOf(processArray, p) > indexOf(processArray, state)}

\* C29: in every state the root of every process after the one that state
\* names is empty
C29_LaterRootsEmpty == \A p \in laterProcesses : root[p] = "empty"

\* a process before the simulation was started after the simulation had
\* completed: the root of the simulation is empty
C29_Witness ==
    /\ "Simulation" \in laterProcesses
    /\ ended["Simulation"] = "completed"
    /\ root["Simulation"] = "empty"
    /\ root[state] = "filled"

----------------------------------------------------------------------------
\* Properties of the run that a request for the default source starts

\* s is the first Len(s) members of t
isPrefix(s, t) == Len(s) <= Len(t) /\ \A k \in 1..Len(s) : s[k] = t[k]

\* the five processes have been started, state is the last and nothing is queued
pipelineEnded ==
    /\ defaultRun.started = processArray
    /\ state = "Simulation"
    /\ Queue = clearQueue

\* C30: once the default source is queued, and as long as no process fails
\* and no GUI handler makes a request, the processes started are the five of
\* processArray in order, each once, and in the end all five have been
\* started, state is "Simulation" and the queue is empty (or the bound on
\* the number of starts is met)
C30_DefaultRunStartsEachOnce ==
    /\ [](defaultRun.on => isPrefix(defaultRun.started, processArray))
    /\ defaultRun.on ~> (~defaultRun.on \/ pipelineEnded \/ starts = MaxStarts)

====
